---- MODULE Spec2Model ----
(***************************************************************************)
(* A model of joplin-mcp-server: the Tool Host Adapter (server.py), the    *)
(* Tool Layer (tools/notes.py, tools/notebooks.py, tools/tags.py,          *)
(* tools/resources.py), the Backend Gateway (client.py), the Configuration *)
(* Holder (config.py) and the backend it talks to.                         *)
(*                                                                         *)
(* Python values: a str is a TLA+ string, an int an integer, a bool a      *)
(* BOOLEAN; "x | None" is the empty tuple (None) or a one-element tuple    *)
(* (Some(x)); a dict read with .get() is a record whose optional keys hold *)
(* such optionals; a list is a sequence.  Timestamps (created_time,        *)
(* updated_time) are left out of every record: no operation modelled here  *)
(* branches on them.                                                       *)
(***************************************************************************)
EXTENDS Integers, Sequences, FiniteSets, TLC

VARIABLES
    env,        \* os.environ: JOPLIN_API_TOKEN, JOPLIN_HOST, JOPLIN_PORT
    g_config,   \* config.py: the module global _config
    g_client,   \* client.py: the module global _client (with its ._client session)
    notes,      \* backend: the stored notes, in creation order
    notebooks,  \* backend: the stored notebooks, in listing order
    note_tags,  \* backend: per stored note, the ids of the attached tags, in order
    resources,  \* backend: the stored resources, each with the note it is attached to
    tag_store,  \* backend: the stored tags, in creation order
    writes,     \* how many invocations of writing tools the process has served
    pc,         \* the tool host: "idle", or "returned" after a tool invocation
    last,       \* the tool invoked last and its arguments
    gw_calls,   \* the Backend Gateway operations that invocation entered, in order
    calls,      \* the backend (ClientApi) calls that invocation issued, in order
    result,     \* what the Tool Layer function of that invocation returned or raised
    reply,      \* what the registered tool handed to the tool host
    threads     \* the threads inside get_client / _get_client, and what they built

vars == <<env, g_config, g_client, notes, notebooks, note_tags, resources, tag_store, writes,
          pc, last, gw_calls, calls, result, reply, threads>>

backend == <<notes, notebooks, note_tags, resources, tag_store>>

-----------------------------------------------------------------------------
(* Bounds of the model. *)

MaxLimitInput == 200    \* the largest limit a caller passes
MaxBodyLen == 1000      \* the longest stored note body
MaxResults == 2         \* the most records one backend search returns
MaxWrites == 1          \* the most invocations of writing tools in one run
MaxNotebooks == 4       \* the most notebooks the backend comes to hold
MaxThreads == 2         \* the threads the host runs tool invocations on
MaxResources == 2       \* the most resources attached to one note

-----------------------------------------------------------------------------
(* Python values. *)

None == <<>>
Some(v) == <<v>>
Val(o) == o[1]
Opt(S) == {None} \cup {Some(v) : v \in S}

\* Python truthiness of an optional str: None and "" are falsy.
TruthyStr(o) == o # None /\ Val(o) # ""

Min(a, b) == IF a < b THEN a ELSE b

RECURSIVE Rep(_, _)
\* s * k
Rep(s, k) == IF k = 0 THEN ""
             ELSE IF k % 2 = 1 THEN Rep(s, k - 1) \o s
             ELSE LET h == Rep(s, k \div 2) IN h \o h

\* sub in s
Contains(s, sub) ==
    \E i \in 1..(Len(s) - Len(sub) + 1) : SubSeq(s, i, i + Len(sub) - 1) = sub

UpperChars == "ABCDEFGHIJKLMNOPQRSTUVWXYZ"
LowerChars == "abcdefghijklmnopqrstuvwxyz"

LowerChar(c) ==
    IF \E i \in 1..Len(UpperChars) : SubSeq(UpperChars, i, i) = c
    THEN LET i == CHOOSE j \in 1..Len(UpperChars) : SubSeq(UpperChars, j, j) = c
         IN SubSeq(LowerChars, i, i)
    ELSE c

RECURSIVE Lower(_)
\* s.lower()
Lower(s) == IF Len(s) <= 1 THEN LowerChar(s)
            ELSE LET h == Len(s) \div 2
                 IN Lower(SubSeq(s, 1, h)) \o Lower(SubSeq(s, h + 1, Len(s)))

RECURSIVE Join(_, _)
\* sep.join(parts)
Join(sep, parts) ==
    IF parts = <<>> THEN ""
    ELSE IF Len(parts) = 1 THEN parts[1]
    ELSE parts[1] \o sep \o Join(sep, Tail(parts))

-----------------------------------------------------------------------------
(* errors.py: the taxonomy.  An error is its class, the class's category   *)
(* tag, its message and its detail. *)

Category(kind) ==
    CASE kind = "AuthError" -> "auth_error"
      [] kind = "ConnectionError" -> "connection_error"
      [] kind = "NotFoundError" -> "not_found"
      [] kind = "ValidationError" -> "validation_error"
      [] kind = "JoplinAPIError" -> "joplin_error"
      [] OTHER -> "error"

JoplinMCPError(kind, message, detail) ==
    [kind |-> kind, category |-> Category(kind), message |-> message, detail |-> detail]

TaxonomyKinds ==
    {"AuthError", "ConnectionError", "NotFoundError", "ValidationError", "JoplinAPIError"}

\* JoplinMCPError.__str__; a builtin exception prints its message.
ErrorStr(e) ==
    IF e.kind \in TaxonomyKinds /\ TruthyStr(e.detail)
    THEN e.message \o " (detail: " \o Val(e.detail) \o ")"
    ELSE e.message

\* An exception raised below the Gateway: by the HTTP client (transport says
\* whether it is a requests ConnectionError) or by Python itself.
Fault(kind, message) == [kind |-> kind, category |-> "", message |-> message, detail |-> None]

-----------------------------------------------------------------------------
(* The outcome of a call: the state it leaves, and what it returned or     *)
(* raised. *)

Return(st, v) == [st |-> st, ok |-> TRUE, value |-> v, error |-> None]
Raise(st, e) == [st |-> st, ok |-> FALSE, value |-> None, error |-> Some(e)]

-----------------------------------------------------------------------------
(* config.py *)

Digits == "0123456789"
IsDigit(c) == \E i \in 1..Len(Digits) : SubSeq(Digits, i, i) = c
DigitVal(c) == (CHOOSE i \in 1..Len(Digits) : SubSeq(Digits, i, i) = c) - 1

\* The strings int() accepts, among the port settings of the model: a
\* non-empty run of decimal digits.
IsIntString(s) == s # "" /\ \A i \in 1..Len(s) : IsDigit(SubSeq(s, i, i))

RECURSIVE ParseInt(_)
ParseInt(s) == IF s = "" THEN 0
               ELSE 10 * ParseInt(SubSeq(s, 1, Len(s) - 1)) + DigitVal(SubSeq(s, Len(s), Len(s)))

RECURSIVE IntStr(_)
\* str(n) for n >= 0
IntStr(n) == IF n < 10 THEN SubSeq(Digits, n + 1, n + 1)
             ELSE IntStr(n \div 10) \o SubSeq(Digits, (n % 10) + 1, (n % 10) + 1)

DefaultHost == "localhost"
DefaultPort == "41184"

\* os.environ.get(key, default)
EnvGet(o, default) == IF o = None THEN default ELSE Val(o)

get_config_rereads(st) ==
    IF ~TruthyStr(st.env.JOPLIN_API_TOKEN)
    THEN Raise(st, Fault("ValueError", "JOPLIN_API_TOKEN environment variable is required. "
                              \o "Get your token from Joplin: Tools > Options > Web Clipper"))
    ELSE LET host == EnvGet(st.env.JOPLIN_HOST, DefaultHost)
             port_str == EnvGet(st.env.JOPLIN_PORT, DefaultPort)
         IN IF ~IsIntString(port_str)
            THEN Raise(st, Fault("ValueError",
                                 "JOPLIN_PORT must be a valid integer, got: " \o port_str))
            ELSE LET c == [api_token |-> Val(st.env.JOPLIN_API_TOKEN), host |-> host,
                           port |-> ParseInt(port_str)]
                 IN Return([st EXCEPT !.g_config = Some(c)], c)

get_config(st) ==
    IF st.g_config # None THEN Return(st, Val(st.g_config))
    ELSE IF ~TruthyStr(st.env.JOPLIN_API_TOKEN)
         THEN Raise(st, Fault("ValueError", "JOPLIN_API_TOKEN environment variable is required. "
                                   \o "Get your token from Joplin: Tools > Options > Web Clipper"))
    ELSE LET host == EnvGet(st.env.JOPLIN_HOST, DefaultHost)
             port_str == EnvGet(st.env.JOPLIN_PORT, DefaultPort)
         IN IF ~IsIntString(port_str)
            THEN Raise(st, Fault("ValueError",
                                 "JOPLIN_PORT must be a valid integer, got: " \o port_str))
            ELSE LET c == [api_token |-> Val(st.env.JOPLIN_API_TOKEN), host |-> host,
                           port |-> ParseInt(port_str)]
                 IN Return([st EXCEPT !.g_config = Some(c)], c)

-----------------------------------------------------------------------------
(* client.py: the Backend Gateway. *)

\* get_client(): the singleton JoplinClient, made of the config on first use.
get_client(st) ==
    IF st.g_client # None THEN Return(st, Val(st.g_client))
    ELSE LET c == get_config(st)
         IN IF ~c.ok THEN c
            ELSE LET obj == [config |-> c.value, session |-> None]
                 IN Return([c.st EXCEPT !.g_client = Some(obj), !.clients = @ + 1], obj)

client_get_client_rebuilds(st) ==
    LET self == Val(st.g_client)
        url == "http://" \o self.config.host \o ":" \o IntStr(self.config.port)
        s == [token |-> self.config.api_token, url |-> url]
    IN [st EXCEPT !.g_client = Some([self EXCEPT !.session = Some(s)]), !.sessions = @ + 1]

\* JoplinClient._get_client(): the joppy session, made on first use
\* (st.sessions counts the ClientApi objects constructed).
client_get_client(st) ==
    LET self == Val(st.g_client)
    IN IF self.session # None THEN st
       ELSE LET url == "http://" \o self.config.host \o ":" \o IntStr(self.config.port)
                s == [token |-> self.config.api_token, url |-> url]
            IN [st EXCEPT !.g_client = Some([self EXCEPT !.session = Some(s)]),
                          !.sessions = @ + 1]

ContextSuffix(context) == IF context # "" THEN ": " \o context ELSE ""

handle_error_not_found_first(st, e, context) ==
    LET error_str == Lower(ErrorStr(e))
        detail == Some(ErrorStr(e))
        cfg == Val(st.g_client).config
    IN IF e.kind = "RequestsConnectionError" \/ Contains(error_str, "connection refused")
       THEN JoplinMCPError("ConnectionError",
                "Cannot connect to Joplin at " \o cfg.host \o ":" \o IntStr(cfg.port) \o ". "
                \o "Is Joplin running with the Web Clipper service enabled?", detail)
       ELSE IF Contains(error_str, "404") \/ Contains(error_str, "not found")
       THEN JoplinMCPError("NotFoundError", "Resource not found" \o ContextSuffix(context), detail)
       ELSE IF Contains(error_str, "401") \/ Contains(error_str, "403")
               \/ Contains(error_str, "unauthorized")
       THEN JoplinMCPError("AuthError",
                "Authentication failed. Check your JOPLIN_API_TOKEN.", detail)
       ELSE JoplinMCPError("JoplinAPIError", "Joplin API error" \o ContextSuffix(context), detail)

handle_error_generic(st, e, context) ==
    JoplinMCPError("JoplinAPIError", "Joplin API error" \o ContextSuffix(context), Some(ErrorStr(e)))

\* JoplinClient._handle_error: the taxonomy error raised for the exception e.
handle_error(st, e, context) ==
    LET error_str == Lower(ErrorStr(e))
        detail == Some(ErrorStr(e))
        cfg == Val(st.g_client).config
    IN IF e.kind = "RequestsConnectionError" \/ Contains(error_str, "connection refused")
       THEN JoplinMCPError("ConnectionError",
                "Cannot connect to Joplin at " \o cfg.host \o ":" \o IntStr(cfg.port) \o ". "
                \o "Is Joplin running with the Web Clipper service enabled?", detail)
       ELSE IF Contains(error_str, "401") \/ Contains(error_str, "403")
               \/ Contains(error_str, "unauthorized")
       THEN JoplinMCPError("AuthError",
                "Authentication failed. Check your JOPLIN_API_TOKEN.", detail)
       ELSE IF Contains(error_str, "404") \/ Contains(error_str, "not found")
       THEN JoplinMCPError("NotFoundError", "Resource not found" \o ContextSuffix(context), detail)
       ELSE JoplinMCPError("JoplinAPIError", "Joplin API error" \o ContextSuffix(context), detail)

\* The faults the backend answers a call with.
Faults ==
    { Fault("RequestsConnectionError", "Max retries exceeded with url"),
      Fault("HTTPError", "401 Client Error: Unauthorized"),
      Fault("HTTPError", "404 Client Error: Not Found"),
      Fault("HTTPError", "500 Server Error: Internal Server Error") }

\* What the backend does during one tool invocation: its at-th call of the
\* invocation fails with fault (at = 0: no call fails).
NoFault == [at |-> 0, fault |-> Fault("", "")]
FaultPlans(n) == {NoFault} \cup {[at |-> k, fault |-> f] : k \in 1..n, f \in Faults}

\* Entering a Gateway operation; issuing a backend call; does the plan fail it.
EnterGw(st, op) == [st EXCEPT !.gw_calls = Append(@, op)]
Issue(st, call) == [st EXCEPT !.calls = Append(@, call)]
Fails(st, plan) == plan.at = Len(st.calls)

-----------------------------------------------------------------------------
(* The backend's records.  A record as joppy hands it over is a dataclass   *)
(* whose unset fields are None; _dataclass_to_dict turns it into a dict     *)
(* that holds the set fields only. *)

NoteData(id, title, body, parent_id, is_todo, todo_completed) ==
    [id |-> Some(id), title |-> Some(title), body |-> body, parent_id |-> Some(parent_id),
     is_todo |-> is_todo, todo_completed |-> todo_completed]

NotebookData(id, title, parent_id) ==
    [id |-> Some(id), title |-> Some(title), parent_id |-> parent_id]

TagData(id, title) == [id |-> Some(id), title |-> Some(title)]

\* A resource record and the note it is attached to.
ResourceData(id, title, filename, mime, size) ==
    [id |-> Some(id), title |-> title, filename |-> filename, mime |-> mime, size |-> size]
Attached(note_id, data) == [note_id |-> note_id, data |-> data]

\* _dataclass_to_dict: the fields that are not None, unwrapped.
dataclass_to_dict(obj) ==
    [k \in {f \in DOMAIN obj : obj[f] # None} |-> Val(obj[k])]

\* d.get(key) and d.get(key, default)
Get(d, key) == IF key \in DOMAIN d THEN Some(d[key]) ELSE None
GetOr(d, key, default) == IF key \in DOMAIN d THEN d[key] ELSE default

\* The tags the backend holds to begin with.
TagIds == <<"t1", "t2">>
TagTitle(id) == "title-" \o id
AllTags == [i \in 1..Len(TagIds) |-> TagData(TagIds[i], TagTitle(TagIds[i]))]

\* The first limit items of a listing: one page of the backend.
Page(items, limit) == SubSeq(items, 1, Min(limit, Len(items)))

\* The strictly increasing index sequences into 1..n of length at most k:
\* the selections a backend search can answer with.
Picks(n, k) ==
    {p \in UNION {[1..m -> 1..n] : m \in 0..Min(n, k)} :
        \A i \in 1..(Len(p) - 1) : p[i] < p[i + 1]}

-----------------------------------------------------------------------------
(* client.py: the Gateway's list and search operations.  Each is           *)
(* try: session, backend call, conversion; except: _handle_error. *)

client_search_notes(st, plan, pick, query, limit, fields) ==
    LET s1 == EnterGw(client_get_client(st), [op |-> "search_notes", query |-> query])
        s2 == Issue(s1, [op |-> "search", query |-> query, limit |-> limit, fields |-> fields])
    IN IF Fails(s2, plan)
       THEN Raise(s2, handle_error(s2, plan.fault, "search '" \o query \o "'"))
       ELSE Return(s2, [i \in 1..Len(pick) |-> dataclass_to_dict(st.notes[pick[i]])])

client_get_notebooks(st, plan, limit, fields) ==
    LET s1 == EnterGw(client_get_client(st), [op |-> "get_notebooks"])
        s2 == Issue(s1, [op |-> "get_notebooks", limit |-> limit, fields |-> fields])
        items == Page(st.notebooks, limit)
    IN IF Fails(s2, plan)
       THEN Raise(s2, handle_error(s2, plan.fault, "get notebooks"))
       ELSE Return(s2, [i \in 1..Len(items) |-> dataclass_to_dict(items[i])])

client_get_tags(st, plan, limit, fields) ==
    LET s1 == EnterGw(client_get_client(st), [op |-> "get_tags"])
        s2 == Issue(s1, [op |-> "get_tags", limit |-> limit, fields |-> fields])
        items == Page(st.tags, limit)
    IN IF Fails(s2, plan)
       THEN Raise(s2, handle_error(s2, plan.fault, "get tags"))
       ELSE Return(s2, [i \in 1..Len(items) |-> dataclass_to_dict(items[i])])

-----------------------------------------------------------------------------
(* tools/notes.py: search. *)

LimitCap == 100
SnippetLen == 500

\* "if limit < 1: raise ValidationError"
limit_invalid_off_by_one(limit) == limit < 0
limit_invalid(limit) == limit < 1

\* "if limit > 100: limit = 100"
clamp_limit_off(limit) == limit
clamp_limit(limit) == IF limit > LimitCap THEN LimitCap ELSE limit

LimitError == JoplinMCPError("ValidationError", "limit must be at least 1", None)

build_search_query_swapped(query, notebook_id, tag_id, is_todo, is_completed) ==
    LET p1 == IF TruthyStr(query) THEN <<Val(query)>> ELSE <<>>
        p2 == IF TruthyStr(tag_id) THEN Append(p1, "tag:" \o Val(tag_id)) ELSE p1
        p3 == IF TruthyStr(notebook_id) THEN Append(p2, "notebook:" \o Val(notebook_id)) ELSE p2
        p4 == IF is_todo = Some(TRUE) THEN Append(p3, "type:todo")
              ELSE IF is_todo = Some(FALSE) THEN Append(p3, "type:note") ELSE p3
        p5 == IF is_completed = Some(TRUE) THEN Append(p4, "iscompleted:1")
              ELSE IF is_completed = Some(FALSE) THEN Append(p4, "iscompleted:0") ELSE p4
    IN IF p5 # <<>> THEN Join(" ", p5) ELSE "*"

\* _build_search_query: parts appended in source order, joined by a space.
build_search_query(query, notebook_id, tag_id, is_todo, is_completed) ==
    LET p1 == IF TruthyStr(query) THEN <<Val(query)>> ELSE <<>>
        p2 == IF TruthyStr(notebook_id) THEN Append(p1, "notebook:" \o Val(notebook_id)) ELSE p1
        p3 == IF TruthyStr(tag_id) THEN Append(p2, "tag:" \o Val(tag_id)) ELSE p2
        p4 == IF is_todo = Some(TRUE) THEN Append(p3, "type:todo")
              ELSE IF is_todo = Some(FALSE) THEN Append(p3, "type:note") ELSE p3
        p5 == IF is_completed = Some(TRUE) THEN Append(p4, "iscompleted:1")
              ELSE IF is_completed = Some(FALSE) THEN Append(p4, "iscompleted:0") ELSE p4
    IN IF p5 # <<>> THEN Join(" ", p5) ELSE "*"

\* "raw_query if raw_query else _build_search_query(...)"
search_query_raw_ignored(query, notebook_id, tag_id, is_todo, is_completed, raw_query) ==
    build_search_query(query, notebook_id, tag_id, is_todo, is_completed)
search_query(query, notebook_id, tag_id, is_todo, is_completed, raw_query) ==
    IF TruthyStr(raw_query) THEN Val(raw_query)
    ELSE build_search_query(query, notebook_id, tag_id, is_todo, is_completed)

\* "body[:500] if len(body) > 500 else body"
snippet_of_short(body) ==
    IF Len(body) > SnippetLen THEN SubSeq(body, 1, SnippetLen - 1) ELSE body
snippet_of(body) == IF Len(body) > SnippetLen THEN SubSeq(body, 1, SnippetLen) ELSE body

\* bool(x) of an int
TruthyInt(n) == n # 0

\* "bool(todo_completed) if todo_completed else False"
is_completed_bool(tc) == IF tc # None /\ TruthyInt(Val(tc)) THEN TruthyInt(Val(tc)) ELSE FALSE

NoteSnippet(note) ==
    [id |-> note["id"], title |-> note["title"], notebook_id |-> note["parent_id"],
     is_todo |-> TruthyInt(GetOr(note, "is_todo", 0)),
     todo_completed |-> is_completed_bool(Get(note, "todo_completed")),
     snippet |-> snippet_of(GetOr(note, "body", ""))]

SearchFields == "id,title,parent_id,created_time,updated_time,is_todo,todo_completed,body"

search_notes(st, plan, pick, query, notebook_id, tag_id, is_todo, is_completed, limit, raw_query) ==
    IF limit_invalid(limit) THEN Raise(st, LimitError)
    ELSE LET c == get_client(st)
         IN IF ~c.ok THEN c
            ELSE LET q == search_query(query, notebook_id, tag_id, is_todo, is_completed, raw_query)
                     r == client_search_notes(c.st, plan, pick, q, clamp_limit(limit), SearchFields)
                 IN IF ~r.ok THEN r
                    ELSE Return(r.st, [i \in 1..Len(r.value) |-> NoteSnippet(r.value[i])])

-----------------------------------------------------------------------------
(* tools/notebooks.py and tools/tags.py: the listings. *)

\* data.get("parent_id") or None
notebook_from_dict(data) ==
    [id |-> data["id"], title |-> data["title"],
     parent_id |-> IF TruthyStr(Get(data, "parent_id")) THEN Get(data, "parent_id") ELSE None]

tag_from_dict(data) == [id |-> data["id"], title |-> data["title"]]

list_notebooks(st, plan, limit) ==
    IF limit_invalid(limit) THEN Raise(st, LimitError)
    ELSE LET c == get_client(st)
         IN IF ~c.ok THEN c
            ELSE LET r == client_get_notebooks(c.st, plan, clamp_limit(limit),
                                               "id,title,parent_id,created_time,updated_time")
                 IN IF ~r.ok THEN r
                    ELSE Return(r.st, [i \in 1..Len(r.value) |-> notebook_from_dict(r.value[i])])

list_tags(st, plan, limit) ==
    IF limit_invalid(limit) THEN Raise(st, LimitError)
    ELSE LET c == get_client(st)
         IN IF ~c.ok THEN c
            ELSE LET r == client_get_tags(c.st, plan, clamp_limit(limit),
                                          "id,title,created_time,updated_time")
                 IN IF ~r.ok THEN r
                    ELSE Return(r.st, [i \in 1..Len(r.value) |-> tag_from_dict(r.value[i])])

-----------------------------------------------------------------------------
(* The backend behind joppy's ClientApi: it stores what it is sent, names  *)
(* a new note or notebook after its place in the store, and answers a call *)
(* on an id it does not hold with a 404 fault. *)

NotFoundFault == Fault("HTTPError", "404 Client Error: Not Found")

HasId(items, id) == \E i \in 1..Len(items) : items[i].id = Some(id)
IndexOf(items, id) == CHOOSE i \in 1..Len(items) : items[i].id = Some(id)

NewNoteId(st) == "n" \o IntStr(Len(st.notes) + 1)
NewNotebookId(st) == "nb" \o IntStr(Len(st.notebooks) + 1)
NewTagId(st) == "t" \o IntStr(Len(st.tags) + 1)

\* add_note(**kwargs)
BackendAddNote(st, kwargs) ==
    LET note == NoteData(NewNoteId(st), GetOr(kwargs, "title", ""),
                         Some(GetOr(kwargs, "body", "")), GetOr(kwargs, "parent_id", ""),
                         Some(GetOr(kwargs, "is_todo", 0)), Some(0))
    IN [st EXCEPT !.notes = Append(@, note), !.note_tags = Append(@, <<>>)]

\* modify_note / modify_notebook(id_, **kwargs): the fields sent replace the
\* stored ones, the others stay.
Modified(old, kwargs) ==
    [f \in DOMAIN old |-> IF f \in DOMAIN kwargs THEN Some(kwargs[f]) ELSE old[f]]

BackendModifyNote(st, id, kwargs) ==
    [st EXCEPT !.notes[IndexOf(st.notes, id)] = Modified(@, kwargs)]

\* add_notebook(**kwargs)
BackendAddNotebook(st, kwargs) ==
    [st EXCEPT !.notebooks = Append(@, NotebookData(NewNotebookId(st), GetOr(kwargs, "title", ""),
                                                    Some(GetOr(kwargs, "parent_id", ""))))]

BackendModifyNotebook(st, id, kwargs) ==
    [st EXCEPT !.notebooks[IndexOf(st.notebooks, id)] = Modified(@, kwargs)]

HasTag(id) == HasId(tag_store, id)

\* add_tag_to_note: the tag joins the note's tags, once.
BackendAddTag(st, tag_id, note_id) ==
    LET i == IndexOf(st.notes, note_id)
    IN IF \E j \in 1..Len(st.note_tags[i]) : st.note_tags[i][j] = tag_id THEN st
       ELSE [st EXCEPT !.note_tags[i] = Append(@, tag_id)]

\* delete_tag(id_, note_id): the tag leaves the note's tags.
BackendRemoveTag(st, tag_id, note_id) ==
    LET i == IndexOf(st.notes, note_id)
    IN [st EXCEPT !.note_tags[i] = SelectSeq(@, LAMBDA t : t # tag_id)]

\* add_tag(title=title)
BackendNewTag(st, title) == [st EXCEPT !.tags = Append(@, TagData(NewTagId(st), title))]

-----------------------------------------------------------------------------
(* client.py: the Gateway's note, notebook and tag operations. *)

client_get_note(st, plan, note_id, fields) ==
    LET s1 == EnterGw(client_get_client(st), [op |-> "get_note", id |-> note_id])
        s2 == Issue(s1, [op |-> "get_note", id |-> note_id,
                         fields |-> IF fields # None /\ Val(fields) # <<>>
                                    THEN Some(Join(",", Val(fields))) ELSE None])
        context == "note " \o note_id
    IN IF Fails(s2, plan) THEN Raise(s2, handle_error(s2, plan.fault, context))
       ELSE IF ~HasId(s2.notes, note_id) THEN Raise(s2, handle_error(s2, NotFoundFault, context))
       ELSE Return(s2, dataclass_to_dict(s2.notes[IndexOf(s2.notes, note_id)]))

\* add_note, then self.get_note(note_id); an error of that get_note is caught
\* by this operation's own except clause and translated again.
client_create_note(st, plan, kwargs) ==
    LET s1 == EnterGw(client_get_client(st), [op |-> "create_note", kwargs |-> kwargs])
        s2 == Issue(s1, [op |-> "add_note", kwargs |-> kwargs])
    IN IF Fails(s2, plan) THEN Raise(s2, handle_error(s2, plan.fault, "create note"))
       ELSE LET note_id == NewNoteId(s2)
                r == client_get_note(BackendAddNote(s2, kwargs), plan, note_id, None)
            IN IF ~r.ok THEN Raise(r.st, handle_error(r.st, Val(r.error), "create note"))
               ELSE r

client_update_note_unguarded(st, plan, note_id, kwargs) ==
    LET s1 == EnterGw(client_get_client(st), [op |-> "update_note", id |-> note_id,
                                              kwargs |-> kwargs])
        s2 == Issue(s1, [op |-> "modify_note", id |-> note_id, kwargs |-> kwargs])
    IN IF Fails(s2, plan) THEN Raise(s2, plan.fault)
       ELSE IF ~HasId(s2.notes, note_id) THEN Raise(s2, NotFoundFault)
       ELSE Return(BackendModifyNote(s2, note_id, kwargs), None)

client_update_note(st, plan, note_id, kwargs) ==
    LET s1 == EnterGw(client_get_client(st), [op |-> "update_note", id |-> note_id,
                                              kwargs |-> kwargs])
        s2 == Issue(s1, [op |-> "modify_note", id |-> note_id, kwargs |-> kwargs])
        context == "update note " \o note_id
    IN IF Fails(s2, plan) THEN Raise(s2, handle_error(s2, plan.fault, context))
       ELSE IF ~HasId(s2.notes, note_id) THEN Raise(s2, handle_error(s2, NotFoundFault, context))
       ELSE Return(BackendModifyNote(s2, note_id, kwargs), None)

client_get_note_tags(st, plan, note_id) ==
    LET s1 == EnterGw(client_get_client(st), [op |-> "get_note_tags", id |-> note_id])
        s2 == Issue(s1, [op |-> "get_tags", note_id |-> note_id])
        context == "get tags for note " \o note_id
    IN IF Fails(s2, plan) THEN Raise(s2, handle_error(s2, plan.fault, context))
       ELSE IF ~HasId(s2.notes, note_id) THEN Raise(s2, handle_error(s2, NotFoundFault, context))
       ELSE LET ids == s2.note_tags[IndexOf(s2.notes, note_id)]
            IN Return(s2, [i \in 1..Len(ids) |->
                              dataclass_to_dict(s2.tags[IndexOf(s2.tags, ids[i])])])

client_add_tag_to_note(st, plan, tag_id, note_id) ==
    LET s1 == EnterGw(client_get_client(st), [op |-> "add_tag_to_note", tag_id |-> tag_id,
                                              note_id |-> note_id])
        s2 == Issue(s1, [op |-> "add_tag_to_note", tag_id |-> tag_id, note_id |-> note_id])
        context == "add tag " \o tag_id \o " to note " \o note_id
    IN IF Fails(s2, plan) THEN Raise(s2, handle_error(s2, plan.fault, context))
       ELSE IF ~HasId(s2.notes, note_id) \/ ~HasId(s2.tags, tag_id)
            THEN Raise(s2, handle_error(s2, NotFoundFault, context))
       ELSE Return(BackendAddTag(s2, tag_id, note_id), None)

client_remove_tag_from_note(st, plan, tag_id, note_id) ==
    LET s1 == EnterGw(client_get_client(st), [op |-> "remove_tag_from_note", tag_id |-> tag_id,
                                              note_id |-> note_id])
        s2 == Issue(s1, [op |-> "delete_tag", id_ |-> tag_id, note_id |-> note_id])
        context == "remove tag " \o tag_id \o " from note " \o note_id
    IN IF Fails(s2, plan) THEN Raise(s2, handle_error(s2, plan.fault, context))
       ELSE IF ~HasId(s2.notes, note_id) \/ ~HasId(s2.tags, tag_id)
            THEN Raise(s2, handle_error(s2, NotFoundFault, context))
       ELSE Return(BackendRemoveTag(s2, tag_id, note_id), None)

client_get_tag_touches(st, plan, tag_id) ==
    LET s1 == EnterGw(client_get_client(st), [op |-> "get_tag", id |-> tag_id])
        s2 == Issue(s1, [op |-> "get_tag", id |-> tag_id])
        context == "tag " \o tag_id
    IN IF Fails(s2, plan) THEN Raise(s2, handle_error(s2, plan.fault, context))
       ELSE IF ~HasId(s2.tags, tag_id) THEN Raise(BackendNewTag(s2, tag_id), handle_error(s2, NotFoundFault, context))
       ELSE Return(s2, dataclass_to_dict(s2.tags[IndexOf(s2.tags, tag_id)]))

client_get_tag(st, plan, tag_id) ==
    LET s1 == EnterGw(client_get_client(st), [op |-> "get_tag", id |-> tag_id])
        s2 == Issue(s1, [op |-> "get_tag", id |-> tag_id])
        context == "tag " \o tag_id
    IN IF Fails(s2, plan) THEN Raise(s2, handle_error(s2, plan.fault, context))
       ELSE IF ~HasId(s2.tags, tag_id) THEN Raise(s2, handle_error(s2, NotFoundFault, context))
       ELSE Return(s2, dataclass_to_dict(s2.tags[IndexOf(s2.tags, tag_id)]))

\* add_tag, then self.get_tag(tag_id), inside one try.
client_create_tag(st, plan, title) ==
    LET s1 == EnterGw(client_get_client(st), [op |-> "create_tag", title |-> title])
        s2 == Issue(s1, [op |-> "add_tag", title |-> title])
        context == "create tag '" \o title \o "'"
    IN IF Fails(s2, plan) THEN Raise(s2, handle_error(s2, plan.fault, context))
       ELSE LET tag_id == NewTagId(s2)
                r == client_get_tag(BackendNewTag(s2, title), plan, tag_id)
            IN IF ~r.ok THEN Raise(r.st, handle_error(r.st, Val(r.error), context))
               ELSE r

\* get_resources(note_id=note_id): the records attached to the note, in the
\* backend's order (one page; the notes here hold fewer).
client_get_note_resources(st, plan, note_id) ==
    LET s1 == EnterGw(client_get_client(st), [op |-> "get_note_resources", id |-> note_id])
        s2 == Issue(s1, [op |-> "get_resources", note_id |-> note_id])
        context == "get resources for note " \o note_id
        items == SelectSeq(s2.resources, LAMBDA r : r.note_id = note_id)
    IN IF Fails(s2, plan) THEN Raise(s2, handle_error(s2, plan.fault, context))
       ELSE IF ~HasId(s2.notes, note_id) THEN Raise(s2, handle_error(s2, NotFoundFault, context))
       ELSE Return(s2, [i \in 1..Len(items) |-> dataclass_to_dict(items[i].data)])

client_get_notebook(st, plan, notebook_id) ==
    LET s1 == EnterGw(client_get_client(st), [op |-> "get_notebook", id |-> notebook_id])
        s2 == Issue(s1, [op |-> "get_notebook", id |-> notebook_id])
        context == "notebook " \o notebook_id
    IN IF Fails(s2, plan) THEN Raise(s2, handle_error(s2, plan.fault, context))
       ELSE IF ~HasId(s2.notebooks, notebook_id)
            THEN Raise(s2, handle_error(s2, NotFoundFault, context))
       ELSE Return(s2, dataclass_to_dict(s2.notebooks[IndexOf(s2.notebooks, notebook_id)]))

client_create_notebook_no_fetch(st, plan, kwargs) ==
    LET s1 == EnterGw(client_get_client(st), [op |-> "create_notebook", kwargs |-> kwargs])
        s2 == Issue(s1, [op |-> "add_notebook", kwargs |-> kwargs])
    IN IF Fails(s2, plan) THEN Raise(s2, handle_error(s2, plan.fault, "create notebook"))
       ELSE Return(BackendAddNotebook(s2, kwargs), dataclass_to_dict(NotebookData(NewNotebookId(s2), "", None)))

\* add_notebook, then self.get_notebook(notebook_id), inside one try.
client_create_notebook(st, plan, kwargs) ==
    LET s1 == EnterGw(client_get_client(st), [op |-> "create_notebook", kwargs |-> kwargs])
        s2 == Issue(s1, [op |-> "add_notebook", kwargs |-> kwargs])
    IN IF Fails(s2, plan) THEN Raise(s2, handle_error(s2, plan.fault, "create notebook"))
       ELSE LET notebook_id == NewNotebookId(s2)
                r == client_get_notebook(BackendAddNotebook(s2, kwargs), plan, notebook_id)
            IN IF ~r.ok THEN Raise(r.st, handle_error(r.st, Val(r.error), "create notebook"))
               ELSE r

client_update_notebook(st, plan, notebook_id, kwargs) ==
    LET s1 == EnterGw(client_get_client(st), [op |-> "update_notebook", id |-> notebook_id,
                                              kwargs |-> kwargs])
        s2 == Issue(s1, [op |-> "modify_notebook", id |-> notebook_id, kwargs |-> kwargs])
        context == "update notebook " \o notebook_id
    IN IF Fails(s2, plan) THEN Raise(s2, handle_error(s2, plan.fault, context))
       ELSE IF ~HasId(s2.notebooks, notebook_id)
            THEN Raise(s2, handle_error(s2, NotFoundFault, context))
       ELSE Return(BackendModifyNotebook(s2, notebook_id, kwargs), None)

-----------------------------------------------------------------------------
(* tools/notes.py: get, create, update. *)

\* A dict of the keys whose optional value is given.
Kwargs(opts) == [k \in {f \in DOMAIN opts : opts[f] # None} |-> Val(opts[k])]

\* "1 if flag else 0"
BoolInt(flag) == IF flag THEN 1 ELSE 0
OptBoolInt(o) == IF o = None THEN None ELSE Some(BoolInt(Val(o)))

NoteFields ==
    <<"id", "title", "body", "parent_id", "created_time", "updated_time", "is_todo",
      "todo_completed">>

TagRef_swapped(t) == [id |-> t["title"], title |-> t["id"]]
TagRef(t) == [id |-> t["id"], title |-> t["title"]]

get_note(st, plan, note_id) ==
    LET c == get_client(st)
    IN IF ~c.ok THEN c
       ELSE LET n == client_get_note(c.st, plan, note_id, Some(NoteFields))
            IN IF ~n.ok THEN n
               ELSE LET t == client_get_note_tags(n.st, plan, note_id)
                        note == n.value
                    IN IF ~t.ok THEN t
                       ELSE Return(t.st,
                                [id |-> note["id"], title |-> note["title"],
                                 body |-> GetOr(note, "body", ""),
                                 notebook_id |-> note["parent_id"],
                                 is_todo |-> TruthyInt(GetOr(note, "is_todo", 0)),
                                 todo_completed |-> is_completed_bool(Get(note, "todo_completed")),
                                 tags |-> [i \in 1..Len(t.value) |-> TagRef(t.value[i])]])

RECURSIVE attach_tags(_, _, _, _)
\* "for tag_id in tags: client.add_tag_to_note(tag_id=tag_id, note_id=created['id'])"
attach_tags(st, plan, tags, note_id) ==
    IF tags = <<>> THEN Return(st, None)
    ELSE LET r == client_add_tag_to_note(st, plan, Head(tags), note_id)
         IN IF ~r.ok THEN r ELSE attach_tags(r.st, plan, Tail(tags), note_id)

create_note_kwargs_no_body(title, body, notebook_id, is_todo) ==
    Kwargs([title |-> Some(title), body |-> Some(""), is_todo |-> Some(BoolInt(is_todo)),
            parent_id |-> IF TruthyStr(notebook_id) THEN notebook_id ELSE None])
create_note_kwargs(title, body, notebook_id, is_todo) ==
    Kwargs([title |-> Some(title), body |-> Some(body), is_todo |-> Some(BoolInt(is_todo)),
            parent_id |-> IF TruthyStr(notebook_id) THEN notebook_id ELSE None])

create_note_refetches_anyway(st, plan, title, body, notebook_id, is_todo, tags) ==
    LET c == get_client(st)
    IN IF ~c.ok THEN c
       ELSE LET created == client_create_note(c.st, plan,
                                               create_note_kwargs(title, body, notebook_id, is_todo))
            IN IF ~created.ok THEN created
               ELSE LET a == IF tags # None /\ Val(tags) # <<>>
                             THEN attach_tags(created.st, plan, Val(tags), created.value["id"])
                             ELSE Return(created.st, None)
                    IN get_note(a.st, plan, created.value["id"])
create_note(st, plan, title, body, notebook_id, is_todo, tags) ==
    LET c == get_client(st)
    IN IF ~c.ok THEN c
       ELSE LET created == client_create_note(c.st, plan,
                                               create_note_kwargs(title, body, notebook_id, is_todo))
            IN IF ~created.ok THEN created
               ELSE LET a == IF tags # None /\ Val(tags) # <<>>
                             THEN attach_tags(created.st, plan, Val(tags), created.value["id"])
                             ELSE Return(created.st, None)
                    IN IF ~a.ok THEN a ELSE get_note(a.st, plan, created.value["id"])

update_note_kwargs_truthy(title, body, notebook_id, is_todo, todo_completed) ==
    Kwargs([title |-> IF TruthyStr(title) THEN title ELSE None,
            body |-> IF TruthyStr(body) THEN body ELSE None,
            parent_id |-> IF TruthyStr(notebook_id) THEN notebook_id ELSE None,
            is_todo |-> IF is_todo = Some(TRUE) THEN Some(1) ELSE None,
            todo_completed |-> IF todo_completed = Some(TRUE) THEN Some(1) ELSE None])
update_note_kwargs(title, body, notebook_id, is_todo, todo_completed) ==
    Kwargs([title |-> title, body |-> body, parent_id |-> notebook_id,
            is_todo |-> OptBoolInt(is_todo), todo_completed |-> OptBoolInt(todo_completed)])

\* "if kwargs: client.update_note(note_id, **kwargs)"
has_changes_always(kwargs) == TRUE
has_changes(kwargs) == DOMAIN kwargs # {}

update_note_refetches_first(st, plan, note_id, title, body, notebook_id, is_todo, todo_completed) ==
    LET c == get_client(st)
        kwargs == update_note_kwargs(title, body, notebook_id, is_todo, todo_completed)
    IN IF ~c.ok THEN c
       ELSE LET r == get_note(c.st, plan, note_id)
            IN IF ~r.ok \/ ~has_changes(kwargs) THEN r
               ELSE LET u == client_update_note(r.st, plan, note_id, kwargs)
                    IN IF ~u.ok THEN u ELSE Return(u.st, r.value)

update_note(st, plan, note_id, title, body, notebook_id, is_todo, todo_completed) ==
    LET c == get_client(st)
        kwargs == update_note_kwargs(title, body, notebook_id, is_todo, todo_completed)
    IN IF ~c.ok THEN c
       ELSE LET u == IF has_changes(kwargs) THEN client_update_note(c.st, plan, note_id, kwargs)
                     ELSE Return(c.st, None)
            IN IF ~u.ok THEN u ELSE get_note(u.st, plan, note_id)

-----------------------------------------------------------------------------
(* tools/notebooks.py: get, create, update. *)

get_notebook(st, plan, notebook_id) ==
    LET c == get_client(st)
    IN IF ~c.ok THEN c
       ELSE LET r == client_get_notebook(c.st, plan, notebook_id)
            IN IF ~r.ok THEN r ELSE Return(r.st, notebook_from_dict(r.value))

create_notebook(st, plan, title, parent_id) ==
    LET c == get_client(st)
        kwargs == Kwargs([title |-> Some(title),
                          parent_id |-> IF TruthyStr(parent_id) THEN parent_id ELSE None])
    IN IF ~c.ok THEN c
       ELSE LET r == client_create_notebook(c.st, plan, kwargs)
            IN IF ~r.ok THEN r ELSE Return(r.st, notebook_from_dict(r.value))

update_notebook(st, plan, notebook_id, title, parent_id) ==
    LET c == get_client(st)
        kwargs == Kwargs([title |-> title, parent_id |-> parent_id])
    IN IF ~c.ok THEN c
       ELSE LET u == IF has_changes(kwargs)
                     THEN client_update_notebook(c.st, plan, notebook_id, kwargs)
                     ELSE Return(c.st, None)
            IN IF ~u.ok THEN u ELSE get_notebook(u.st, plan, notebook_id)

-----------------------------------------------------------------------------
(* tools/tags.py: attaching a tag to a note and detaching it. *)

add_tag_to_note_always_confirms(st, plan, tag_id, note_id) ==
    LET c == get_client(st)
    IN IF ~c.ok THEN c
       ELSE LET r == client_add_tag_to_note(c.st, plan, tag_id, note_id)
            IN Return(r.st, [message |-> "Tag " \o tag_id \o " added to note " \o note_id])
add_tag_to_note(st, plan, tag_id, note_id) ==
    LET c == get_client(st)
    IN IF ~c.ok THEN c
       ELSE LET r == client_add_tag_to_note(c.st, plan, tag_id, note_id)
            IN IF ~r.ok THEN r
               ELSE Return(r.st, [message |-> "Tag " \o tag_id \o " added to note " \o note_id])

remove_tag_from_note(st, plan, tag_id, note_id) ==
    LET c == get_client(st)
    IN IF ~c.ok THEN c
       ELSE LET r == client_remove_tag_from_note(c.st, plan, tag_id, note_id)
            IN IF ~r.ok THEN r
               ELSE Return(r.st, [message |-> "Tag " \o tag_id \o " removed from note " \o note_id])

get_tag(st, plan, tag_id) ==
    LET c == get_client(st)
    IN IF ~c.ok THEN c
       ELSE LET r == client_get_tag(c.st, plan, tag_id)
            IN IF ~r.ok THEN r ELSE Return(r.st, tag_from_dict(r.value))

create_tag(st, plan, title) ==
    LET c == get_client(st)
    IN IF ~c.ok THEN c
       ELSE LET r == client_create_tag(c.st, plan, title)
            IN IF ~r.ok THEN r ELSE Return(r.st, tag_from_dict(r.value))

-----------------------------------------------------------------------------
(* tools/resources.py: the attachments of a note. *)

DefaultMime == "application/octet-stream"

\* Python's "value or default" on a string and on an integer.
StrOr(s, default) == IF s # "" THEN s ELSE default
IntOr(n, default) == IF n # 0 THEN n ELSE default

resource_from_dict_get_only(data) ==
    [id |-> data["id"],
     title |-> GetOr(data, "title", ""),
     filename |-> GetOr(data, "filename", ""),
     mime |-> GetOr(data, "mime", DefaultMime),
     size |-> GetOr(data, "size", 0)]
resource_from_dict(data) ==
    [id |-> data["id"],
     title |-> StrOr(GetOr(data, "title", ""), ""),
     filename |-> StrOr(GetOr(data, "filename", ""), ""),
     mime |-> StrOr(GetOr(data, "mime", DefaultMime), DefaultMime),
     size |-> IntOr(GetOr(data, "size", 0), 0)]

get_note_resources(st, plan, note_id) ==
    LET c == get_client(st)
    IN IF ~c.ok THEN c
       ELSE LET r == client_get_note_resources(c.st, plan, note_id)
            IN IF ~r.ok THEN r
               ELSE Return(r.st, [i \in 1..Len(r.value) |-> resource_from_dict(r.value[i])])

-----------------------------------------------------------------------------
(* tools/notebooks.py: get_notebook_tree.  One listing is fetched, then one *)
(* pass over it fills children_map and root_ids, then build_tree descends   *)
(* from every root. *)

TreeFetchLimit == 100

\* {nb["id"]: nb for nb in notebooks_data}: a later record of an id replaces
\* an earlier one.
notebook_map(notebooks_data) ==
    [id \in {notebooks_data[i]["id"] : i \in DOMAIN notebooks_data} |->
        notebooks_data[CHOOSE i \in DOMAIN notebooks_data :
            /\ notebooks_data[i]["id"] = id
            /\ \A j \in DOMAIN notebooks_data : notebooks_data[j]["id"] = id => j <= i]]

has_listed_parent_any(notebooks_data, nb) ==
    TruthyStr(Get(nb, "parent_id"))

\* "if parent_id and parent_id in notebook_map"
has_listed_parent(notebooks_data, nb) ==
    LET parent_id == Get(nb, "parent_id")
    IN TruthyStr(parent_id) /\ Val(parent_id) \in DOMAIN notebook_map(notebooks_data)

IdsOf(records) == [i \in 1..Len(records) |-> records[i]["id"]]

\* The else branch of the pass: root_ids.append(nb["id"]).
root_ids(notebooks_data) ==
    IdsOf(SelectSeq(notebooks_data, LAMBDA nb : ~has_listed_parent(notebooks_data, nb)))

children_map_last_only(notebooks_data) ==
    LET placed == SelectSeq(notebooks_data, LAMBDA nb : has_listed_parent(notebooks_data, nb))
    IN [parent_id \in {placed[i]["parent_id"] : i \in DOMAIN placed} |->
           LET ids == IdsOf(SelectSeq(placed, LAMBDA nb : nb["parent_id"] = parent_id))
           IN << ids[Len(ids)] >>]

\* The then branch of the pass: children_map[parent_id].append(nb["id"]).
children_map(notebooks_data) ==
    LET placed == SelectSeq(notebooks_data, LAMBDA nb : has_listed_parent(notebooks_data, nb))
    IN [parent_id \in {placed[i]["parent_id"] : i \in DOMAIN placed} |->
           IdsOf(SelectSeq(placed, LAMBDA nb : nb["parent_id"] = parent_id))]

child_ids_reversed(notebooks_data, node_id) ==
    LET ids == GetOr(children_map(notebooks_data), node_id, <<>>)
    IN [k \in 1..Len(ids) |-> ids[Len(ids) + 1 - k]]

\* children_map.get(node_id, [])
child_ids(notebooks_data, node_id) ==
    GetOr(children_map(notebooks_data), node_id, <<>>)

RECURSIVE build_tree(_, _)
build_tree(notebooks_data, node_id) ==
    LET nb == notebook_map(notebooks_data)[node_id]
        ids == child_ids(notebooks_data, node_id)
    IN [id |-> nb["id"], title |-> nb["title"],
        children |-> [k \in 1..Len(ids) |-> build_tree(notebooks_data, ids[k])]]

get_notebook_tree(st, plan) ==
    LET c == get_client(st)
    IN IF ~c.ok THEN c
       ELSE LET r == client_get_notebooks(c.st, plan, TreeFetchLimit, "id,title,parent_id")
            IN IF ~r.ok THEN r
               ELSE LET roots == root_ids(r.value)
                    IN Return(r.st, [k \in 1..Len(roots) |-> build_tree(r.value, roots[k])])

-----------------------------------------------------------------------------
(* The tool host: one invocation at a time.  An invocation runs a Tool     *)
(* Layer function to its end against the process globals and the backend;  *)
(* Respond hands the outcome to the caller and the host is idle again. *)

St == [env |-> env, g_config |-> g_config, g_client |-> g_client,
       notes |-> notes, notebooks |-> notebooks, note_tags |-> note_tags,
       resources |-> resources, tags |-> tag_store, gw_calls |-> <<>>, calls |-> <<>>,
       clients |-> threads.clients, sessions |-> threads.sessions]

NoResult == [ok |-> TRUE, value |-> None, error |-> None]
NoReply == [returned |-> TRUE, value |-> None, raised |-> None]

server_handle_error_no_detail(e) == [category |-> e.category, message |-> e.message, detail |-> None]

\* server.py _handle_error: the ErrorResponse of a taxonomy error.
server_handle_error(e) == [category |-> e.category, message |-> e.message, detail |-> e.detail]

\* A registered tool: "try: return <tool>(...)  except JoplinMCPError as e:
\* return _handle_error(e)".  Any other exception leaves the tool.
tool_reply(out) ==
    IF out.ok THEN [returned |-> TRUE, value |-> Some(out.value), raised |-> None]
    ELSE IF Val(out.error).kind \in TaxonomyKinds
    THEN [returned |-> TRUE, value |-> Some(server_handle_error(Val(out.error))), raised |-> None]
    ELSE [returned |-> FALSE, value |-> None, raised |-> out.error]
NoCall == [tool |-> "", args |-> <<>>]

Invoke(tool, args, out) ==
    /\ pc' = "returned"
    /\ last' = [tool |-> tool, args |-> args]
    /\ result' = [ok |-> out.ok, value |-> out.value, error |-> out.error]
    /\ reply' = tool_reply(out)
    /\ gw_calls' = out.st.gw_calls
    /\ calls' = out.st.calls
    /\ g_config' = out.st.g_config
    /\ g_client' = out.st.g_client
    /\ notes' = out.st.notes
    /\ notebooks' = out.st.notebooks
    /\ note_tags' = out.st.note_tags
    /\ resources' = out.st.resources
    /\ tag_store' = out.st.tags
    /\ threads' = [threads EXCEPT !.clients = out.st.clients, !.sessions = out.st.sessions]
    /\ UNCHANGED env

\* A reading tool, and a writing tool (counted against the budget of writes).
Read(tool, args, out) == Invoke(tool, args, out) /\ UNCHANGED writes
Write(tool, args, out) == Invoke(tool, args, out) /\ writes' = writes + 1

Respond ==
    /\ pc = "returned"
    /\ pc' = "idle"
    /\ last' = NoCall
    /\ result' = NoResult
    /\ reply' = NoReply
    /\ gw_calls' = <<>>
    /\ calls' = <<>>
    /\ UNCHANGED <<env, g_config, g_client, backend, writes, threads>>

\* The arguments callers pass.
LimitInputs == {-1, 0, 1, LimitCap - 1, LimitCap, LimitCap + 1, MaxLimitInput}
QueryInputs == Opt({"", "x"})
IdFilterInputs == Opt({"", "n"})
TagFilterInputs == Opt({"t"})
BoolInputs == Opt(BOOLEAN)
RawQueryInputs == Opt({"", "custom:query"})

SearchNotes ==
    /\ pc = "idle"
    /\ \E query \in QueryInputs, notebook_id \in IdFilterInputs, tag_id \in TagFilterInputs,
       is_todo \in BoolInputs, is_completed \in BoolInputs, limit \in LimitInputs,
       raw_query \in RawQueryInputs, plan \in FaultPlans(1) :
        \E pick \in Picks(Len(notes), Min(clamp_limit(limit), MaxResults)) :
            /\ plan.at # 0 => pick = <<>>
            /\ Read("search_notes",
                      [query |-> query, notebook_id |-> notebook_id, tag_id |-> tag_id,
                       is_todo |-> is_todo, is_completed |-> is_completed, limit |-> limit,
                       raw_query |-> raw_query, pick |-> pick],
                      search_notes(St, plan, pick, query, notebook_id, tag_id, is_todo,
                                   is_completed, limit, raw_query))

ListNotebooks ==
    /\ pc = "idle"
    /\ \E limit \in LimitInputs, plan \in FaultPlans(1) :
        Read("list_notebooks", [limit |-> limit], list_notebooks(St, plan, limit))

ListTags ==
    /\ pc = "idle"
    /\ \E limit \in LimitInputs, plan \in FaultPlans(1) :
        Read("list_tags", [limit |-> limit], list_tags(St, plan, limit))

-----------------------------------------------------------------------------
(* What the process starts from. *)

GoodEnv == [JOPLIN_API_TOKEN |-> Some("secret"), JOPLIN_HOST |-> None, JOPLIN_PORT |-> None]

\* A body of n characters, each position its own letter of a cycle.
BodyOfLen(n) == SubSeq(Rep("abcdefg", (n \div 7) + 1), 1, n)

BodyFixtures ==
    << None, Some(""), Some(BodyOfLen(1)), Some(BodyOfLen(SnippetLen - 1)),
       Some(BodyOfLen(SnippetLen)), Some(BodyOfLen(SnippetLen + 1)),
       Some(BodyOfLen(MaxBodyLen)) >>

\* The note stores searched: two notes each, over the body fixtures.
SearchStores ==
    { << NoteData("n1", "T1", BodyFixtures[k], "nb1", Some(0), None),
         NoteData("n2", "T2", BodyFixtures[(k % Len(BodyFixtures)) + 1], "", Some(1), Some(1)) >>
      : k \in {1, 3, 5, 7} }

NotebookFixture ==
    << NotebookData("nb1", "Root", Some("")), NotebookData("nb2", "Child", Some("nb1")) >>

\* No thread is inside the lazy initialisation; nothing has been built.
NoThreads == [at |-> <<>>, objs |-> <<>>, ref |-> 0, clients |-> 0, sessions |-> 0]

InitProcess ==
    /\ g_config = None
    /\ g_client = None
    /\ pc = "idle"
    /\ last = NoCall
    /\ result = NoResult
    /\ reply = NoReply
    /\ threads = NoThreads
    /\ tag_store = AllTags
    /\ gw_calls = <<>>
    /\ calls = <<>>
    /\ writes = 0

InitSearch ==
    /\ InitProcess
    /\ env = GoodEnv
    /\ notes \in SearchStores
    /\ notebooks = NotebookFixture
    /\ resources = <<>>
    /\ note_tags = [i \in 1..Len(notes) |-> <<>>]

NextSearch == SearchNotes \/ ListNotebooks \/ ListTags \/ Respond

SpecSearch == InitSearch /\ [][NextSearch]_vars

-----------------------------------------------------------------------------
(* The note and notebook tools against a backend that holds one note and   *)
(* two notebooks to begin with. *)

\* The faults of the fault plans here: one transport failure, one HTTP error.
CrudFaults ==
    { Fault("RequestsConnectionError", "Max retries exceeded with url"),
      Fault("HTTPError", "500 Server Error: Internal Server Error") }
CrudPlans(n) == {NoFault} \cup {[at |-> k, fault |-> f] : k \in 1..n, f \in CrudFaults}

NoteIdInputs == {"n1", "n2", "zz"}
UpdateIdInputs == {"n1", "zz"}
NotebookIdInputs == {"nb1", "zz"}
CreateTitles == {"T"}
CreateBodies == {"", "B"}
ParentInputs == Opt({"", "nb1"})
TagListInputs == {None, Some(<<>>), Some(<<"t1", "t2">>), Some(<<"t2", "zz">>)}
UpdateTitles == Opt({""})
UpdateBodies == Opt({""})
UpdateParents == Opt({""})
NotebookParents == Opt({"", "nb2"})

GetNote ==
    /\ pc = "idle"
    /\ \E note_id \in NoteIdInputs, plan \in CrudPlans(2) :
        Read("get_note", [note_id |-> note_id], get_note(St, plan, note_id))

CreateNote ==
    /\ pc = "idle" /\ writes < MaxWrites
    /\ \E title \in CreateTitles, body \in CreateBodies, notebook_id \in ParentInputs,
          is_todo \in BOOLEAN, tags \in TagListInputs, plan \in CrudPlans(6) :
        Write("create_note",
              [title |-> title, body |-> body, notebook_id |-> notebook_id,
               is_todo |-> is_todo, tags |-> tags],
              create_note(St, plan, title, body, notebook_id, is_todo, tags))

UpdateNote ==
    /\ pc = "idle" /\ writes < MaxWrites
    /\ \E note_id \in UpdateIdInputs, title \in UpdateTitles, body \in UpdateBodies,
          notebook_id \in UpdateParents, is_todo \in BoolInputs,
          todo_completed \in BoolInputs, plan \in CrudPlans(3) :
        Write("update_note",
              [note_id |-> note_id, title |-> title, body |-> body,
               notebook_id |-> notebook_id, is_todo |-> is_todo,
               todo_completed |-> todo_completed],
              update_note(St, plan, note_id, title, body, notebook_id, is_todo, todo_completed))

GetNotebook ==
    /\ pc = "idle"
    /\ \E notebook_id \in NotebookIdInputs, plan \in CrudPlans(1) :
        Read("get_notebook", [notebook_id |-> notebook_id], get_notebook(St, plan, notebook_id))

CreateNotebook ==
    /\ pc = "idle" /\ writes < MaxWrites
    /\ \E title \in CreateTitles, parent_id \in ParentInputs, plan \in CrudPlans(2) :
        Write("create_notebook", [title |-> title, parent_id |-> parent_id],
              create_notebook(St, plan, title, parent_id))

UpdateNotebook ==
    /\ pc = "idle" /\ writes < MaxWrites
    /\ \E notebook_id \in NotebookIdInputs, title \in UpdateTitles,
          parent_id \in NotebookParents, plan \in CrudPlans(2) :
        Write("update_notebook",
              [notebook_id |-> notebook_id, title |-> title, parent_id |-> parent_id],
              update_notebook(St, plan, notebook_id, title, parent_id))

InitCrud ==
    /\ InitProcess
    /\ env = GoodEnv
    /\ notes = << NoteData("n1", "T1", Some("B1"), "nb1", Some(1), Some(0)) >>
    /\ note_tags = << <<"t1">> >>
    /\ notebooks = NotebookFixture
    /\ resources = <<>>

NextCrud ==
    \/ GetNote \/ CreateNote \/ UpdateNote
    \/ GetNotebook \/ CreateNotebook \/ UpdateNotebook
    \/ Respond

SpecCrud == InitCrud /\ [][NextCrud]_vars

-----------------------------------------------------------------------------
(* The notebook tree against every small backend listing: distinct ids in   *)
(* sorted or unsorted order, every parent_id absent, empty, the id of a  *)
(* listed notebook (itself included) or the id of none. *)

IdOrders == { <<"a", "b", "c", "d", "e">>, <<"a", "c", "b", "d", "e">> }

ParentChoices(ids) ==
    {None, Some(""), Some("zz")} \cup {Some(ids[i]) : i \in DOMAIN ids}

TreePlans ==
    {NoFault, [at |-> 1, fault |-> Fault("RequestsConnectionError", "Max retries exceeded with url")]}

GetNotebookTree ==
    /\ pc = "idle"
    /\ \E plan \in TreePlans :
        Read("get_notebook_tree", <<>>, get_notebook_tree(St, plan))

InitTree ==
    /\ InitProcess
    /\ env = GoodEnv
    /\ notes = <<>>
    /\ note_tags = <<>>
    /\ resources = <<>>
    /\ \E n \in 0..MaxNotebooks, order \in IdOrders :
        \E parents \in [1..n -> ParentChoices(SubSeq(order, 1, n))] :
            notebooks = [i \in 1..n |-> NotebookData(order[i], "N-" \o order[i], parents[i])]

NextTree == GetNotebookTree \/ Respond

SpecTree == InitTree /\ [][NextTree]_vars

-----------------------------------------------------------------------------
(* The reading tools under every kind of fault: a process environment that *)
(* does not configure, and a backend whose calls fail the way the HTTP     *)
(* client reports it, the failed request's URL in the message. *)

BackendUrl == "http://localhost:41184"

\* The exceptions a backend call on path can end with: the transport down,
\* the connection refused below the HTTP client, and HTTP status errors.
UrlFaults(path) ==
    { Fault("RequestsConnectionError", "Max retries exceeded with url: " \o path),
      Fault("OSError", "[Errno 111] Connection refused"),
      Fault("OSError", "[Errno 111] Connection refused: " \o BackendUrl \o path),
      Fault("HTTPError", "401 Client Error: Unauthorized for url: " \o BackendUrl \o path),
      Fault("HTTPError", "403 Client Error: Forbidden for url: " \o BackendUrl \o path),
      Fault("HTTPError", "404 Client Error: Not Found for url: " \o BackendUrl \o path),
      Fault("HTTPError", "500 Server Error: Internal Server Error for url: " \o BackendUrl \o path) }

UrlFaultPlans(n, path) ==
    {NoFault} \cup {[at |-> k, fault |-> f] : k \in 1..n, f \in UrlFaults(path)}

\* Environments: configured, without a token, with an empty token, with a
\* port that is no integer.
EnvChoices ==
    { GoodEnv,
      [JOPLIN_API_TOKEN |-> None, JOPLIN_HOST |-> None, JOPLIN_PORT |-> None],
      [JOPLIN_API_TOKEN |-> Some(""), JOPLIN_HOST |-> None, JOPLIN_PORT |-> None],
      [JOPLIN_API_TOKEN |-> Some("secret"), JOPLIN_HOST |-> None, JOPLIN_PORT |-> Some("80a")] }

FaultyNoteIds == {"n1", "a401", "zz"}
FaultyNotebookIds == {"nb1", "b403", "zz"}

FaultyGetNote ==
    /\ pc = "idle"
    /\ \E note_id \in FaultyNoteIds :
        \E plan \in UrlFaultPlans(2, "/notes/" \o note_id) :
            Read("get_note", [note_id |-> note_id, plan |-> plan], get_note(St, plan, note_id))

FaultyGetNotebook ==
    /\ pc = "idle"
    /\ \E notebook_id \in FaultyNotebookIds :
        \E plan \in UrlFaultPlans(1, "/folders/" \o notebook_id) :
            Read("get_notebook", [notebook_id |-> notebook_id, plan |-> plan],
                 get_notebook(St, plan, notebook_id))

FaultyListTags ==
    /\ pc = "idle"
    /\ \E limit \in {0, 1}, plan \in UrlFaultPlans(1, "/tags") :
        Read("list_tags", [limit |-> limit, plan |-> plan], list_tags(St, plan, limit))

InitFaults ==
    /\ InitProcess
    /\ env \in EnvChoices
    /\ notes = << NoteData("n1", "T1", Some("B1"), "nb1", Some(1), Some(0)) >>
    /\ note_tags = << <<"t1">> >>
    /\ notebooks = NotebookFixture
    /\ resources = <<>>

NextFaults == FaultyGetNote \/ FaultyGetNotebook \/ FaultyListTags \/ Respond

SpecFaults == InitFaults /\ [][NextFaults]_vars

-----------------------------------------------------------------------------
(* The Configuration Holder on its own: get_config called again and again   *)
(* while the process environment changes between the calls. *)

ConfigEnvs ==
    [JOPLIN_API_TOKEN : Opt({"", "secret", "other"}),
     JOPLIN_HOST : Opt({"joplin"}),
     JOPLIN_PORT : Opt({"", "8080", "80a"})]

\* One call of get_config(); the environment it ran in is kept with the call.
GetConfig ==
    /\ pc = "idle"
    /\ LET out == get_config(St)
       IN /\ pc' = "returned"
          /\ last' = [tool |-> "get_config", args |-> [env |-> env]]
          /\ result' = [ok |-> out.ok, value |-> out.value, error |-> out.error]
          /\ g_config' = out.st.g_config
    /\ UNCHANGED <<env, g_client, backend, writes, gw_calls, calls, reply, threads>>

\* os.environ is assigned between two calls.
SetEnv ==
    /\ pc = "idle"
    /\ \E e \in ConfigEnvs : e # env /\ env' = e
    /\ UNCHANGED <<g_config, g_client, backend, writes, pc, last, gw_calls, calls, result,
                   reply, threads>>

InitConfig ==
    /\ InitProcess
    /\ env \in ConfigEnvs
    /\ notes = <<>>
    /\ note_tags = <<>>
    /\ notebooks = <<>>
    /\ resources = <<>>

NextConfig == GetConfig \/ SetEnv \/ Respond

SpecConfig == InitConfig /\ [][NextConfig]_vars

-----------------------------------------------------------------------------
(* The lazy initialisation under a host that runs tool invocations on       *)
(* several threads.  A thread runs get_client() and then the Gateway's      *)
(* _get_client(), one read or write of shared state per step; the           *)
(* interpreter may switch threads between any two steps.                    *)
(* threads.at[t]: where thread t is, the config it holds, the JoplinClient  *)
(* object it holds; threads.objs: the JoplinClient objects built so far;    *)
(* threads.ref: which of them the global _client names (0: None);           *)
(* threads.clients, threads.sessions: how many JoplinClient and ClientApi   *)
(* objects have been constructed. *)

Threads == 1..MaxThreads

Idle == [pc |-> "out", config |-> None, self |-> 0]

At(t) == threads.at[t]
Goto(t, label) == [threads EXCEPT !.at[t].pc = label]

\* What the threads' initialisation steps leave alone.
host == <<backend, writes, pc, last, gw_calls, calls, result, reply>>

\* A tool invocation starts on thread t: "client = get_client()".
Enter(t) ==
    /\ At(t).pc = "out"
    /\ threads' = [threads EXCEPT !.at[t] = [Idle EXCEPT !.pc = "check_client"]]
    /\ UNCHANGED <<env, g_config, g_client, host>>

\* get_client: "if _client is None:"
CheckClient(t) ==
    /\ At(t).pc = "check_client"
    /\ threads' = Goto(t, IF threads.ref = 0 THEN "check_config" ELSE "return_client")
    /\ UNCHANGED <<env, g_config, g_client, host>>

\* get_config: "if _config is not None: return _config"
CheckConfig(t) ==
    /\ At(t).pc = "check_config"
    /\ threads' = IF g_config # None
                  THEN [threads EXCEPT !.at[t].pc = "build_client", !.at[t].config = g_config]
                  ELSE Goto(t, "build_config")
    /\ UNCHANGED <<env, g_config, g_client, host>>

\* get_config past its test: the environment is read, "_config = Config(...)",
\* "return _config".
BuildConfig(t) ==
    /\ At(t).pc = "build_config"
    /\ LET out == get_config([St EXCEPT !.g_config = None])
       IN /\ out.ok
          /\ g_config' = out.st.g_config
          /\ threads' = [threads EXCEPT !.at[t].pc = "build_client",
                                        !.at[t].config = Some(out.value)]
    /\ UNCHANGED <<env, g_client, host>>

\* get_client: "_client = JoplinClient(config)"
BuildClient(t) ==
    /\ At(t).pc = "build_client"
    /\ LET obj == [config |-> Val(At(t).config), session |-> None]
       IN /\ threads' = [threads EXCEPT !.at[t].pc = "return_client",
                                        !.objs = Append(@, obj),
                                        !.ref = Len(threads.objs) + 1,
                                        !.clients = @ + 1]
          /\ g_client' = Some(obj)
    /\ UNCHANGED <<env, g_config, host>>

\* get_client: "return _client"; the tool then calls a Gateway operation on it.
ReturnClient(t) ==
    /\ At(t).pc = "return_client"
    /\ threads' = [threads EXCEPT !.at[t].pc = "check_session", !.at[t].self = threads.ref]
    /\ UNCHANGED <<env, g_config, g_client, host>>

\* _get_client: "if self._client is None:"
CheckSession(t) ==
    /\ At(t).pc = "check_session"
    /\ threads' = Goto(t, IF threads.objs[At(t).self].session = None
                          THEN "build_session" ELSE "out")
    /\ UNCHANGED <<env, g_config, g_client, host>>

\* _get_client past its test: "self._client = ClientApi(token=..., url=...)"
BuildSession(t) ==
    /\ At(t).pc = "build_session"
    /\ LET self == threads.objs[At(t).self]
           built == client_get_client([St EXCEPT !.g_client = Some([self EXCEPT !.session = None])])
           obj == Val(built.g_client)
       IN /\ threads' = [threads EXCEPT !.at[t].pc = "out",
                                        !.objs[At(t).self] = obj,
                                        !.sessions = built.sessions]
          /\ g_client' = IF threads.ref = At(t).self THEN Some(obj) ELSE g_client
    /\ UNCHANGED <<env, g_config, host>>

InitThreads ==
    /\ g_config = None
    /\ g_client = None
    /\ pc = "idle"
    /\ last = NoCall
    /\ result = NoResult
    /\ reply = NoReply
    /\ gw_calls = <<>>
    /\ calls = <<>>
    /\ writes = 0
    /\ threads = [NoThreads EXCEPT !.at = [t \in Threads |-> Idle]]
    /\ env = GoodEnv
    /\ notes = <<>>
    /\ note_tags = <<>>
    /\ notebooks = <<>>
    /\ resources = <<>>
    /\ tag_store = AllTags

NextThreads ==
    \E t \in Threads :
        \/ Enter(t)
        \/ CheckClient(t)
        \/ CheckConfig(t)
        \/ BuildConfig(t)
        \/ BuildClient(t)
        \/ ReturnClient(t)
        \/ CheckSession(t)
        \/ BuildSession(t)

SpecThreads == InitThreads /\ [][NextThreads]_vars

-----------------------------------------------------------------------------
(* The tag pass-through tools against a backend holding two notes, with    *)
(* known and unknown ids and a fault plan for the one backend call.  What  *)
(* joppy's delete_tag does with the note_id keyword is not in this         *)
(* repository: the call may take effect, fail at the backend, or raise     *)
(* TypeError before any request. *)

TagIdInputs == {"t1", "t2", "zz"}
TagNoteInputs == {"n1", "n2", "zz"}

AttachFaults(tag_id, note_id) == UrlFaults("/tags/" \o tag_id \o "/notes")
DetachFaults(tag_id, note_id) ==
    UrlFaults("/tags/" \o tag_id \o "/notes/" \o note_id)
        \cup { Fault("TypeError", "delete_tag() got an unexpected keyword argument 'note_id'") }

AddTagToNote ==
    /\ pc = "idle" /\ writes < MaxWrites
    /\ \E tag_id \in TagIdInputs, note_id \in TagNoteInputs :
        \E plan \in {NoFault} \cup {[at |-> 1, fault |-> f] : f \in AttachFaults(tag_id, note_id)} :
            Write("add_tag_to_note", [tag_id |-> tag_id, note_id |-> note_id, plan |-> plan],
                  add_tag_to_note(St, plan, tag_id, note_id))

RemoveTagFromNote ==
    /\ pc = "idle" /\ writes < MaxWrites
    /\ \E tag_id \in TagIdInputs, note_id \in TagNoteInputs :
        \E plan \in {NoFault} \cup {[at |-> 1, fault |-> f] : f \in DetachFaults(tag_id, note_id)} :
            Write("remove_tag_from_note", [tag_id |-> tag_id, note_id |-> note_id, plan |-> plan],
                  remove_tag_from_note(St, plan, tag_id, note_id))

InitTags ==
    /\ InitProcess
    /\ env = GoodEnv
    /\ notes = << NoteData("n1", "T1", Some("B1"), "nb1", Some(1), Some(0)),
                  NoteData("n2", "T2", Some(""), "nb1", Some(0), Some(0)) >>
    /\ note_tags = << <<"t1">>, <<"t2", "t1">> >>
    /\ notebooks = NotebookFixture
    /\ resources = <<>>

NextTags == AddTagToNote \/ RemoveTagFromNote \/ Respond

SpecTags == InitTags /\ [][NextTags]_vars

-----------------------------------------------------------------------------
(* get_note_resources against a backend whose note n1 holds up to          *)
(* MaxResources resources and whose note n2 holds one complete resource.   *)
(* Of the first resource of n1 each field is set, empty (or zero) or not   *)
(* sent at all, independently; each further one sends nothing but its id,  *)
(* or every field empty, or every field set. *)

ResourceTitles == Opt({"", "image.png"})
ResourceFilenames == Opt({"image.png"})
ResourceMimes == Opt({"", "image/png"})
ResourceSizes == Opt({0, 12345})
ResourceNoteInputs == {"n1", "n2", "zz"}

ResourceId(i) == "res" \o IntStr(i)

FirstResources ==
    { ResourceData(ResourceId(1), title, filename, mime, size) :
        title \in ResourceTitles, filename \in ResourceFilenames,
        mime \in ResourceMimes, size \in ResourceSizes }

FurtherResources(i) ==
    { ResourceData(ResourceId(i), None, None, None, None),
      ResourceData(ResourceId(i), Some(""), Some(""), Some(""), Some(0)),
      ResourceData(ResourceId(i), Some("notes.txt"), Some("notes.txt"), Some("text/plain"), Some(7)) }

GetNoteResources ==
    /\ pc = "idle"
    /\ \E note_id \in ResourceNoteInputs, plan \in CrudPlans(1) :
        Read("get_note_resources", [note_id |-> note_id, plan |-> plan],
             get_note_resources(St, plan, note_id))

InitResources ==
    /\ InitProcess
    /\ env = GoodEnv
    /\ notes = << NoteData("n1", "T1", Some("B1"), "nb1", Some(1), Some(0)),
                  NoteData("n2", "T2", Some(""), "nb1", Some(0), Some(0)) >>
    /\ note_tags = << <<"t1">>, <<>> >>
    /\ notebooks = NotebookFixture
    /\ \E n \in 0..MaxResources :
        \E data \in [1..n -> FirstResources \cup UNION {FurtherResources(i) : i \in 2..n}] :
            /\ \A i \in 1..n : data[i] \in (IF i = 1 THEN FirstResources ELSE FurtherResources(i))
            /\ resources =
                << Attached("n2", ResourceData("doc", Some("document.pdf"), Some("document.pdf"),
                                               Some("application/pdf"), Some(54321))) >>
                \o [i \in 1..n |-> Attached("n1", data[i])]

NextResources == GetNoteResources \/ Respond

SpecResources == InitResources /\ [][NextResources]_vars

-----------------------------------------------------------------------------
(* The writing tools of several backend calls, a fault of any kind at any  *)
(* one of the calls, the fault plan kept with the invocation. *)

StepTagLists == {None, Some(<<"t1", "t2">>), Some(<<"t2", "zz">>)}
\* The backend's faults, a refused connection below the HTTP client, and
\* the TypeError of _dataclass_to_dict for an answer that is no record.
StepFaults ==
    Faults \cup { Fault("OSError", "[Errno 111] Connection refused"),
                  Fault("TypeError", "Expected dataclass or dict, got <class 'NoneType'>") }
StepPlans(n) == {NoFault} \cup {[at |-> k, fault |-> f] : k \in 1..n, f \in StepFaults}

StepCreateNote ==
    /\ pc = "idle" /\ writes < MaxWrites
    /\ \E tags \in StepTagLists, plan \in StepPlans(6) :
        Write("create_note",
              [title |-> "T", body |-> "B", notebook_id |-> Some("nb1"), is_todo |-> FALSE,
               tags |-> tags, plan |-> plan],
              create_note(St, plan, "T", "B", Some("nb1"), FALSE, tags))

StepUpdateNote ==
    /\ pc = "idle" /\ writes < MaxWrites
    /\ \E note_id \in UpdateIdInputs, title \in Opt({"X"}), is_todo \in Opt({FALSE}),
          plan \in StepPlans(3) :
        Write("update_note",
              [note_id |-> note_id, title |-> title, body |-> None, notebook_id |-> None,
               is_todo |-> is_todo, todo_completed |-> None, plan |-> plan],
              update_note(St, plan, note_id, title, None, None, is_todo, None))

StepCreateNotebook ==
    /\ pc = "idle" /\ writes < MaxWrites
    /\ \E parent_id \in ParentInputs, plan \in StepPlans(2) :
        Write("create_notebook", [title |-> "T", parent_id |-> parent_id, plan |-> plan],
              create_notebook(St, plan, "T", parent_id))

StepUpdateNotebook ==
    /\ pc = "idle" /\ writes < MaxWrites
    /\ \E notebook_id \in NotebookIdInputs, title \in Opt({"X"}), parent_id \in NotebookParents,
          plan \in StepPlans(2) :
        Write("update_notebook",
              [notebook_id |-> notebook_id, title |-> title, parent_id |-> parent_id, plan |-> plan],
              update_notebook(St, plan, notebook_id, title, parent_id))

StepCreateTag ==
    /\ pc = "idle" /\ writes < MaxWrites
    /\ \E title \in {"new", "title-t1"}, plan \in StepPlans(2) :
        Write("create_tag", [title |-> title, plan |-> plan], create_tag(St, plan, title))

NextSteps ==
    \/ StepCreateNote \/ StepUpdateNote \/ StepCreateNotebook \/ StepUpdateNotebook
    \/ StepCreateTag
    \/ Respond

SpecSteps == InitCrud /\ [][NextSteps]_vars

-----------------------------------------------------------------------------
(* The reading tools, one after another and mixed with create_tag, against *)
(* a backend that holds notes, notebooks, tags and a resource. *)

GetTagInputs == {"t1", "t3", "zz"}

GetTag ==
    /\ pc = "idle"
    /\ \E tag_id \in GetTagInputs, plan \in CrudPlans(1) :
        Read("get_tag", [tag_id |-> tag_id, plan |-> plan], get_tag(St, plan, tag_id))

InitReads == InitCrud

NextReads ==
    \/ SearchNotes \/ GetNote \/ ListNotebooks \/ GetNotebook \/ GetNotebookTree
    \/ ListTags \/ GetTag \/ GetNoteResources
    \/ StepCreateTag
    \/ Respond

SpecReads == InitReads /\ [][NextReads]_vars

-----------------------------------------------------------------------------
(* Properties of the list and search tools (checked under SpecSearch). *)

Returned(tool) == pc = "returned" /\ last.tool = tool
ListingTools == {"search_notes", "list_notebooks", "list_tags"}
ReturnedListing == pc = "returned" /\ last.tool \in ListingTools
Raised(kind) == ~result.ok /\ Val(result.error).kind = kind

\* C1: for every limit < 1, search_notes, list_notebooks and list_tags raise
\* ValidationError, and the invocation has entered no Gateway operation and
\* issued no backend call.
C1_InvalidLimitRejectedBeforeAnyCall ==
    (ReturnedListing /\ last.args.limit < 1)
        => /\ Raised("ValidationError")
           /\ Val(result.error).category = "validation_error"
           /\ gw_calls = <<>>
           /\ calls = <<>>

C1_Witness ==
    /\ Returned("list_tags") /\ last.args.limit = 0
    /\ Raised("ValidationError") /\ calls = <<>>

\* C2: for every limit >= 1, the one backend call search_notes, list_notebooks
\* and list_tags issue carries limit = min(limit, 100).
C2_LimitSentIsMinOfLimitAndCap ==
    (ReturnedListing /\ last.args.limit >= 1)
        => /\ Len(calls) = 1
           /\ calls[1].limit = Min(last.args.limit, 100)
           /\ last.args.limit > 100 => calls[1].limit = 100

C2_Witness ==
    /\ Returned("search_notes") /\ last.args.limit = MaxLimitInput
    /\ result.ok /\ calls[1].limit = 100

\* The parts of the query the claim lists, in its order; a part is present
\* when its argument is given and not empty (is_todo, is_completed: not null).
C3_Parts(a) ==
    << IF TruthyStr(a.query) THEN a.query ELSE None,
       IF TruthyStr(a.notebook_id) THEN Some("notebook:" \o Val(a.notebook_id)) ELSE None,
       IF TruthyStr(a.tag_id) THEN Some("tag:" \o Val(a.tag_id)) ELSE None,
       IF a.is_todo = None THEN None
       ELSE IF Val(a.is_todo) THEN Some("type:todo") ELSE Some("type:note"),
       IF a.is_completed = None THEN None
       ELSE IF Val(a.is_completed) THEN Some("iscompleted:1") ELSE Some("iscompleted:0") >>

C3_Present(a) == SelectSeq(C3_Parts(a), LAMBDA p : p # None)

C3_Expected(a) ==
    LET present == C3_Present(a)
    IN IF present = <<>> THEN "*"
       ELSE Join(" ", [i \in 1..Len(present) |-> Val(present[i])])

\* C3: without raw_query, the query search_notes sends is the present parts in
\* the fixed order (query, notebook:, tag:, type:, iscompleted:) joined by
\* single spaces, and "*" when no part is present.
C3_QueryAssembledInFixedOrder ==
    (Returned("search_notes") /\ last.args.limit >= 1 /\ last.args.raw_query = None)
        => /\ Len(calls) = 1
           /\ calls[1].query = C3_Expected(last.args)

C3_Witness ==
    /\ Returned("search_notes") /\ last.args.raw_query = None
    /\ last.args.query = Some("x") /\ last.args.notebook_id = Some("n")
    /\ last.args.tag_id = Some("t") /\ last.args.is_todo = Some(TRUE)
    /\ last.args.is_completed = Some(FALSE)
    /\ calls # <<>> /\ calls[1].query = "x notebook:n tag:t type:todo iscompleted:0"

C3_WitnessWildcard ==
    /\ Returned("search_notes") /\ last.args.raw_query = None
    /\ C3_Present(last.args) = <<>>
    /\ calls # <<>> /\ calls[1].query = "*"

\* C4 as stated: whenever raw_query is given (any non-null string), the query
\* sent to the backend is exactly raw_query.
C4_AnyGivenRawQuerySentVerbatim ==
    (Returned("search_notes") /\ last.args.limit >= 1 /\ last.args.raw_query # None)
        => /\ Len(calls) = 1
           /\ calls[1].query = Val(last.args.raw_query)

\* C4 as amended: a raw_query that is given and not empty is sent exactly as
\* it is, whatever the other filters are; an empty raw_query counts as not
\* given and the query is assembled from the other filters.
C4_NonEmptyRawQuerySentVerbatim ==
    (Returned("search_notes") /\ last.args.limit >= 1 /\ last.args.raw_query # None)
        => /\ Len(calls) = 1
           /\ Val(last.args.raw_query) # "" => calls[1].query = Val(last.args.raw_query)
           /\ Val(last.args.raw_query) = "" => calls[1].query = C3_Expected(last.args)

C4_Witness ==
    /\ Returned("search_notes") /\ last.args.raw_query = Some("custom:query")
    /\ last.args.query = Some("x") /\ last.args.is_todo = Some(TRUE)
    /\ calls # <<>> /\ calls[1].query = "custom:query"

\* The body of the i-th record the backend search answered with ("" when the
\* record has none).
C5_Body(i) ==
    LET b == notes[last.args.pick[i]].body IN IF b = None THEN "" ELSE Val(b)

\* C5: the snippet of every returned record is the first 500 characters of
\* its body: of length min(len(body), 500) and a prefix of the body; a record
\* without a body gives the empty snippet.
C5_SnippetIsFirst500OfBody ==
    (Returned("search_notes") /\ result.ok)
        => /\ Len(result.value) = Len(last.args.pick)
           /\ \A i \in 1..Len(result.value) :
                LET sn == result.value[i].snippet
                IN /\ Len(sn) = Min(Len(C5_Body(i)), 500)
                   /\ sn = SubSeq(C5_Body(i), 1, Len(sn))
                   /\ notes[last.args.pick[i]].body = None => sn = ""

C5_Witness ==
    /\ Returned("search_notes") /\ result.ok
    /\ \E i \in 1..Len(result.value) :
         /\ Len(C5_Body(i)) = MaxBodyLen
         /\ Len(result.value[i].snippet) = 500
    /\ \E i \in 1..Len(result.value) :
         /\ notes[last.args.pick[i]].body = None
         /\ result.value[i].snippet = ""

-----------------------------------------------------------------------------
(* Properties of the note and notebook tools (checked under SpecCrud). *)

\* The Note the tool layer is to return for the i-th stored note.
StoredNote(i) ==
    [id |-> Val(notes[i].id), title |-> Val(notes[i].title),
     body |-> IF notes[i].body = None THEN "" ELSE Val(notes[i].body),
     notebook_id |-> Val(notes[i].parent_id),
     is_todo |-> notes[i].is_todo = Some(1),
     todo_completed |-> notes[i].todo_completed = Some(1),
     tags |-> [j \in 1..Len(note_tags[i]) |->
                  [id |-> note_tags[i][j], title |-> TagTitle(note_tags[i][j])]]]

StoredNotebook(i) ==
    [id |-> Val(notebooks[i].id), title |-> Val(notebooks[i].title),
     parent_id |-> IF TruthyStr(notebooks[i].parent_id) THEN notebooks[i].parent_id ELSE None]

CallsOf(ops) == SelectSeq(calls, LAMBDA c : c.op \in ops)
GwCallsOf(ops) == SelectSeq(gw_calls, LAMBDA c : c.op \in ops)

NoFieldGiven(a) ==
    \/ /\ last.tool = "update_note"
       /\ a.title = None /\ a.body = None /\ a.notebook_id = None
       /\ a.is_todo = None /\ a.todo_completed = None
    \/ /\ last.tool = "update_notebook"
       /\ a.title = None /\ a.parent_id = None

\* C6: update_note(id) and update_notebook(id) with every optional field null
\* issue no backend update call, leave the backend's records as they were,
\* and return the record as it is stored, after one refetch.
C6_UpdateWithoutFieldsOnlyRefetches ==
    [][ (pc = "idle" /\ pc' = "returned" /\ NoFieldGiven(last.args)')
          => /\ backend' = backend
             /\ CallsOf({"modify_note", "modify_notebook"})' = <<>>
             /\ GwCallsOf({"update_note", "update_notebook"})' = <<>>
             /\ Len(CallsOf({"get_note", "get_notebook"}))' = 1
             /\ (result.ok /\ last.tool = "update_note"
                   => /\ HasId(notes, last.args.note_id)
                      /\ result.value = StoredNote(IndexOf(notes, last.args.note_id)))'
             /\ (result.ok /\ last.tool = "update_notebook"
                   => /\ HasId(notebooks, last.args.notebook_id)
                      /\ result.value
                           = StoredNotebook(IndexOf(notebooks, last.args.notebook_id)))'
      ]_vars

C6_Witness ==
    /\ Returned("update_note") /\ NoFieldGiven(last.args)
    /\ result.ok /\ result.value.id = "n1" /\ result.value.title = "T1"
    /\ Len(calls) = 2

\* The update map the claim describes: one key per argument that is not null.
C7_Expected(a) ==
    Kwargs([title |-> a.title, body |-> a.body, parent_id |-> a.notebook_id,
            is_todo |-> IF a.is_todo = None THEN None
                        ELSE IF Val(a.is_todo) THEN Some(1) ELSE Some(0),
            todo_completed |-> IF a.todo_completed = None THEN None
                               ELSE IF Val(a.todo_completed) THEN Some(1) ELSE Some(0)])

C7_GivenKeys(a) ==
    {k \in {"title", "body", "notebook_id", "is_todo", "todo_completed"} : a[k] # None}

\* C7: the fields update_note sends in the backend update call are exactly
\* its non-null arguments (notebook_id as parent_id), is_todo and
\* todo_completed as the integers 1 and 0; a null argument is never sent.
C7_UpdateSendsExactlyGivenFields ==
    Returned("update_note")
        => /\ \A i \in 1..Len(calls) :
                calls[i].op = "modify_note"
                  => /\ calls[i].kwargs = C7_Expected(last.args)
                     /\ Cardinality(DOMAIN calls[i].kwargs)
                          = Cardinality(C7_GivenKeys(last.args))
                     /\ calls[i].id = last.args.note_id
           /\ C7_GivenKeys(last.args) # {}
                => /\ calls # <<>>
                   /\ calls[1].op = "modify_note"
                   /\ Len(CallsOf({"modify_note"})) = 1

C7_Witness ==
    /\ Returned("update_note")
    /\ last.args.title = Some("") /\ last.args.body = None /\ last.args.notebook_id = None
    /\ last.args.is_todo = Some(FALSE) /\ last.args.todo_completed = Some(TRUE)
    /\ calls # <<>>
    /\ DOMAIN calls[1].kwargs = {"title", "is_todo", "todo_completed"}
    /\ calls[1].kwargs["title"] = ""
    /\ calls[1].kwargs["is_todo"] = 0
    /\ calls[1].kwargs["todo_completed"] = 1

\* C8: when create_note(title, body) succeeds, the returned Note and the Note
\* a get_note on the returned id then gives both carry that title and body.
C8_CreateThenGetRoundTrips ==
    (Returned("create_note") /\ result.ok)
        => /\ result.value.title = last.args.title
           /\ result.value.body = last.args.body
           /\ LET g == get_note(St, NoFault, result.value.id)
              IN /\ g.ok
                 /\ g.value.id = result.value.id
                 /\ g.value.title = last.args.title
                 /\ g.value.body = last.args.body

C8_Witness ==
    /\ Returned("create_note") /\ result.ok
    /\ last.args.title = "T" /\ last.args.body = "B"
    /\ result.value.id = "n2" /\ result.value.body = "B"

-----------------------------------------------------------------------------
(* Claims about the notebook tree, checked under SpecTree. *)

ReturnedTree == Returned("get_notebook_tree") /\ result.ok

TreeIds(forest) == [k \in 1..Len(forest) |-> forest[k].id]

RECURSIVE NodesOf(_)
NodesOf(forest) ==
    UNION { {forest[k]} \cup NodesOf(forest[k].children) : k \in DOMAIN forest }

ListedIds(records) == [i \in 1..Len(records) |-> Val(records[i].id)]

\* A listed notebook without a listed parent: parent_id null, empty, or the
\* id of no listed notebook.
Parentless(nb) ==
    \/ nb.parent_id = None
    \/ nb.parent_id = Some("")
    \/ \A i \in DOMAIN notebooks : notebooks[i].id # nb.parent_id

C9_ListedRoots == ListedIds(SelectSeq(notebooks, Parentless))

C9_ListedUnder(id) ==
    ListedIds(SelectSeq(notebooks, LAMBDA nb : nb.parent_id = Some(id)))

\* C9: get_notebook_tree returns the roots in the order they appear in the
\* backend listing, and the children of every returned node are exactly the
\* listed notebooks whose parent_id is that node's id, in listing order.
C9_TreeFollowsListingOrder ==
    ReturnedTree =>
        /\ TreeIds(result.value) = C9_ListedRoots
        /\ \A node \in NodesOf(result.value) :
               TreeIds(node.children) = C9_ListedUnder(node.id)

\* The listing [a(root), b(parent a), c(parent a), d(parent b)] has come back
\* as the single root a with children [b, c], b holding [d].
C9_Witness ==
    /\ ReturnedTree
    /\ notebooks = << NotebookData("a", "N-a", None), NotebookData("b", "N-b", Some("a")),
                      NotebookData("c", "N-c", Some("a")), NotebookData("d", "N-d", Some("b")) >>
    /\ result.value =
         << [id |-> "a", title |-> "N-a", children |->
               << [id |-> "b", title |-> "N-b", children |->
                     << [id |-> "d", title |-> "N-d", children |-> <<>>] >>],
                  [id |-> "c", title |-> "N-c", children |-> <<>>] >>] >>

\* C10: every listed notebook whose parent_id is null, empty or the id of no
\* listed notebook is a root of the returned forest and is the child of no
\* returned node.
C10_OrphansAreRoots ==
    ReturnedTree =>
        \A i \in DOMAIN notebooks :
            Parentless(notebooks[i]) =>
                /\ \E k \in DOMAIN result.value : result.value[k].id = Val(notebooks[i].id)
                /\ \A node \in NodesOf(result.value) :
                       \A k \in DOMAIN node.children :
                           node.children[k].id # Val(notebooks[i].id)

\* A listing with a null parent, a dangling parent, an empty parent and one
\* proper child has come back with the first three as roots.
C10_Witness ==
    /\ ReturnedTree
    /\ notebooks = << NotebookData("a", "N-a", None), NotebookData("c", "N-c", Some("zz")),
                      NotebookData("b", "N-b", Some("")), NotebookData("d", "N-d", Some("c")) >>
    /\ TreeIds(result.value) = <<"a", "c", "b">>
    /\ TreeIds(result.value[2].children) = <<"d">>

-----------------------------------------------------------------------------
(* Claims about error translation and the Tool Host Adapter, checked under *)
(* SpecFaults. *)

\* The fault plan of the invocation has failed one of its backend calls.
FaultStruck ==
    /\ pc = "returned" /\ "plan" \in DOMAIN last.args
    /\ last.args.plan.at \in 1..Len(calls)

\* The context string of the Gateway operation entered last.
LastGwContext ==
    LET op == gw_calls[Len(gw_calls)]
    IN CASE op.op = "get_note" -> "note " \o op.id
         [] op.op = "get_note_tags" -> "get tags for note " \o op.id
         [] op.op = "get_notebook" -> "notebook " \o op.id
         [] op.op = "get_tags" -> "get tags"
         [] OTHER -> ""

\* C11: a transport-level connection failure is translated to ConnectionError,
\* and a fault whose message contains "404" is translated to NotFoundError
\* with the operation's context string in its message.
C11_TransportIsConnection404IsNotFound ==
    FaultStruck =>
        /\ last.args.plan.fault.kind = "RequestsConnectionError" => Raised("ConnectionError")
        /\ Contains(last.args.plan.fault.message, "404") =>
               /\ Raised("NotFoundError")
               /\ Contains(Val(result.error).message, LastGwContext)

\* C12: every invocation of a registered tool hands a value to the tool
\* host, the result or an ErrorResponse, whatever fault occurs underneath.
C12_EveryInvocationReturnsAValue ==
    pc = "returned" => reply.returned

C13_CategoryTag(kind) ==
    CASE kind = "AuthError" -> "auth_error"
      [] kind = "ConnectionError" -> "connection_error"
      [] kind = "NotFoundError" -> "not_found"
      [] kind = "ValidationError" -> "validation_error"
      [] kind = "JoplinAPIError" -> "joplin_error"

\* C13: when the Tool Layer function raises a taxonomy error, the registered
\* tool returns an ErrorResponse with that error's category tag, message and
\* detail; the error is the one the Gateway raised (its detail the text of
\* the backend's fault), and a result of the Tool Layer is handed on as it is.
C13_AdapterCarriesTheTaxonomyError ==
    /\ (pc = "returned" /\ ~result.ok /\ Val(result.error).kind \in TaxonomyKinds) =>
          /\ reply.returned
          /\ reply.value = Some([category |-> C13_CategoryTag(Val(result.error).kind),
                                 message |-> Val(result.error).message,
                                 detail |-> Val(result.error).detail])
          /\ FaultStruck => Val(result.error).detail = Some(last.args.plan.fault.message)
    /\ (pc = "returned" /\ result.ok) => reply = [returned |-> TRUE, value |-> Some(result.value),
                                                  raised |-> None]

\* get_notebook on an id the backend answers with 404 has come back as a
\* not_found ErrorResponse carrying the backend's text.
C13_Witness ==
    /\ Returned("get_notebook") /\ FaultStruck
    /\ reply.returned
    /\ Val(reply.value).category = "not_found"
    /\ Val(reply.value).message = "Resource not found: notebook zz"
    /\ Val(reply.value).detail
         = Some("404 Client Error: Not Found for url: http://localhost:41184/folders/zz")

-----------------------------------------------------------------------------
(* Claims about the Configuration Holder, checked under SpecConfig. *)

\* C14: once a call of get_config has succeeded, every later call returns
\* that same Config and leaves it cached, whatever the environment has become.
C14_ConfigResolvedOnce ==
    [][ (g_config # None /\ pc = "idle" /\ pc' = "returned")
          => /\ g_config' = g_config
             /\ result'.ok
             /\ result'.value = Val(g_config) ]_vars

\* A call has returned a Config although the environment of the call holds
\* no token and another port: the Config resolved earlier.
C14_Witness ==
    /\ Returned("get_config") /\ result.ok
    /\ last.args.env.JOPLIN_API_TOKEN = None
    /\ last.args.env.JOPLIN_PORT = Some("80a")
    /\ result.value = [api_token |-> "secret", host |-> "localhost", port |-> 41184]

\* C15: when the token is missing or empty, or the port is no integer,
\* get_config fails with ConfigError, a kind of the error taxonomy.
C15_ConfigFailureIsConfigError ==
    (Returned("get_config") /\ ~result.ok) =>
        /\ Val(result.error).kind = "ConfigError"
        /\ Val(result.error).kind \in TaxonomyKinds

-----------------------------------------------------------------------------
(* Claim about the lazy initialisation on several threads, checked under   *)
(* SpecThreads. *)

\* C16: under concurrent invocations at most one Gateway object and at most
\* one backend session are ever constructed.
C16_AtMostOneClientAndSession ==
    threads.clients <= 1 /\ threads.sessions <= 1

-----------------------------------------------------------------------------
(* Claims about the calls a note tool makes on the Gateway, checked under  *)
(* SpecCrud.  gw_calls holds the Gateway operations of the invocation in   *)
(* order; the Gateway's create_note fetches the new note itself            *)
(* (self.get_note), which is the second entry. *)

C17_Tags == IF last.args.tags = None THEN <<>> ELSE Val(last.args.tags)
C17_Attaches == GwCallsOf({"add_tag_to_note"})
C17_AfterAttaches == SubSeq(gw_calls, 3 + Len(C17_Attaches), Len(gw_calls))

\* C17: create_note with tags t1..tn calls the Gateway's create first, then
\* one attach per tag in the given order, then the refetch (get_note and
\* get_note_tags of the new note); when the attach of tk fails, exactly
\* t1..t(k-1) are attached to the new note, which stays stored, no further
\* Gateway call is made and the error is raised.
C17_CreateAttachesInOrderAndStopsAtFailure ==
    Returned("create_note")
        => /\ gw_calls # <<>>
           /\ gw_calls[1].op = "create_note"
           /\ Len(gw_calls) > 2
                => LET id == gw_calls[2].id
                       k == Len(C17_Attaches)
                   IN /\ gw_calls[2].op = "get_note"
                      /\ HasId(notes, id)
                      /\ k <= Len(C17_Tags)
                      /\ \A i \in 1..k :
                            gw_calls[2 + i] = [op |-> "add_tag_to_note",
                                               tag_id |-> C17_Tags[i], note_id |-> id]
                      /\ IF gw_calls[Len(gw_calls)].op = "add_tag_to_note"
                         THEN /\ ~result.ok
                              /\ Len(gw_calls) = 2 + k
                              /\ note_tags[IndexOf(notes, id)] = SubSeq(C17_Tags, 1, k - 1)
                         ELSE /\ k = Len(C17_Tags)
                              /\ note_tags[IndexOf(notes, id)] = C17_Tags
                              /\ C17_AfterAttaches[1] = [op |-> "get_note", id |-> id]
                              /\ Len(C17_AfterAttaches) <= 2
                              /\ Len(C17_AfterAttaches) = 2
                                    => C17_AfterAttaches[2] = [op |-> "get_note_tags", id |-> id]
                              /\ result.ok => Len(C17_AfterAttaches) = 2

\* The attach of the second of two tags failed: the first stays attached.
C17_Witness ==
    /\ Returned("create_note") /\ ~result.ok
    /\ last.args.tags = Some(<<"t1", "t2">>)
    /\ Len(gw_calls) = 4
    /\ gw_calls[4] = [op |-> "add_tag_to_note", tag_id |-> "t2", note_id |-> "n2"]
    /\ note_tags[2] = <<"t1">>
    /\ Val(result.error).kind = "JoplinAPIError"

\* C18: a successful get_note(id) makes exactly two Gateway reads, the note
\* record and then the note's tag list, and returns the Note of the stored
\* record with the stored tags as (id, title) references, as many and in the
\* same order.
C18_GetNoteIsTwoReadsAndKeepsTagOrder ==
    (Returned("get_note") /\ result.ok)
        => LET id == last.args.note_id
               i == IndexOf(notes, id)
           IN /\ gw_calls = << [op |-> "get_note", id |-> id],
                               [op |-> "get_note_tags", id |-> id] >>
              /\ Len(calls) = 2
              /\ HasId(notes, id)
              /\ result.value = StoredNote(i)
              /\ Len(result.value.tags) = Len(note_tags[i])
              /\ \A j \in 1..Len(note_tags[i]) :
                    result.value.tags[j] = [id |-> note_tags[i][j],
                                            title |-> TagTitle(note_tags[i][j])]

\* get_note of a note holding two tags.
C18_Witness ==
    /\ Returned("get_note") /\ result.ok
    /\ last.args.note_id = "n2"
    /\ Len(gw_calls) = 2
    /\ Len(result.value.tags) = 2
    /\ result.value.tags[1].id = "t1" /\ result.value.tags[2].id = "t2"
    /\ result.value.tags[1].title # result.value.tags[2].title

-----------------------------------------------------------------------------
(* Claim about the tag pass-through tools, checked under SpecTags. *)

C19_Tools == {"add_tag_to_note", "remove_tag_from_note"}

\* The one Gateway call of the invocation raised: the backend call failed,
\* or the backend does not hold the note or the tag.
C19_CallRaised ==
    \/ last.args.plan.at = 1
    \/ ~HasId(notes, last.args.note_id)
    \/ ~HasTag(last.args.tag_id)

C19_Message ==
    "Tag " \o last.args.tag_id
        \o (IF last.tool = "add_tag_to_note" THEN " added to note " ELSE " removed from note ")
        \o last.args.note_id

\* C19: add_tag_to_note and remove_tag_from_note make exactly one Gateway
\* call, with the tag id and the note id given; they return the message
\* naming both ids exactly when that call raised no error, and otherwise the
\* call's error is the outcome and no message is returned.
C19_OneCallAndMessageIffNoError ==
    (pc = "returned" /\ last.tool \in C19_Tools)
        => /\ gw_calls = << [op |-> last.tool, tag_id |-> last.args.tag_id,
                             note_id |-> last.args.note_id] >>
           /\ Len(calls) = 1
           /\ result.ok <=> ~C19_CallRaised
           /\ result.ok => /\ result.value = [message |-> C19_Message]
                           /\ Contains(result.value.message, last.args.tag_id)
                           /\ Contains(result.value.message, last.args.note_id)
           /\ ~result.ok => /\ result.value = None
                            /\ Val(result.error).kind \in TaxonomyKinds
                            /\ reply.value # Some([message |-> C19_Message])

\* A detach whose Gateway call raised: the error is the outcome, the tag stays.
C19_Witness ==
    /\ pc = "returned" /\ last.tool = "remove_tag_from_note"
    /\ last.args.note_id = "n2" /\ last.args.tag_id = "t2"
    /\ last.args.plan.at = 1
    /\ ~result.ok /\ Val(result.error).kind = "ConnectionError"
    /\ Len(gw_calls) = 1
    /\ note_tags[2] = <<"t2", "t1">>

-----------------------------------------------------------------------------
(* Claim about the resource listing, checked under SpecResources. *)

\* The backend's records attached to the note of the invocation, in order.
C20_Stored == SelectSeq(resources, LAMBDA r : r.note_id = last.args.note_id)

\* The value of a string or integer field: the backend's when it sent one
\* that is not empty (not zero), the default otherwise.
C20_Field(o, empty, default) == IF o = None \/ o = Some(empty) THEN default ELSE Val(o)

\* C20: get_note_resources yields one Resource per record the backend
\* returns, in the same order; title and filename are "", mime is
\* application/octet-stream and size is 0 where the backend sends no value
\* or an empty one, and the backend's value otherwise.
C20_OneResourcePerRecordWithDefaults ==
    (Returned("get_note_resources") /\ result.ok)
        => /\ Len(result.value) = Len(C20_Stored)
           /\ \A i \in 1..Len(C20_Stored) :
                LET r == C20_Stored[i].data
                    out == result.value[i]
                IN /\ out.id = Val(r.id)
                   /\ out.title = C20_Field(r.title, "", "")
                   /\ out.filename = C20_Field(r.filename, "", "")
                   /\ out.mime = C20_Field(r.mime, "", "application/octet-stream")
                   /\ out.size = C20_Field(r.size, 0, 0)

\* Two records: the first sends an empty mime with a title and a size, the
\* second sends nothing but its id.
C20_Witness ==
    /\ Returned("get_note_resources") /\ result.ok
    /\ last.args.note_id = "n1"
    /\ Len(result.value) = 2
    /\ C20_Stored[1].data.mime = Some("")
    /\ result.value[1] = [id |-> "res1", title |-> "image.png", filename |-> "image.png",
                          mime |-> "application/octet-stream", size |-> 12345]
    /\ C20_Stored[2].data.title = None /\ C20_Stored[2].data.mime = None
    /\ C20_Stored[2].data.size = None
    /\ result.value[2] = [id |-> "res2", title |-> "", filename |-> "",
                          mime |-> "application/octet-stream", size |-> 0]

-----------------------------------------------------------------------------
(* Claims about parent cycles in the notebook listing, checked under       *)
(* SpecTree (listings of pairwise distinct ids). *)

\* Following parent_id from the listed notebook id reaches, within fuel
\* steps, a notebook without a listed parent.
RECURSIVE C21_ReachesRoot(_, _)
C21_ReachesRoot(id, fuel) ==
    LET nb == notebooks[IndexOf(notebooks, id)]
    IN IF Parentless(nb) THEN TRUE
       ELSE IF fuel = 0 THEN FALSE
       ELSE C21_ReachesRoot(Val(nb.parent_id), fuel - 1)

\* The listed ids on a parent cycle or below one, and the others.
C21_Rooted == {Val(notebooks[i].id) : i \in {j \in DOMAIN notebooks :
                    C21_ReachesRoot(Val(notebooks[j].id), Len(notebooks))}}
C21_Cyclic == {Val(notebooks[i].id) : i \in DOMAIN notebooks} \ C21_Rooted

\* C21 as stated: when the fetched listing contains a parent cycle,
\* get_notebook_tree never returns a result.
C21_CycleNeverReturns ==
    C21_Cyclic # {} => ~ReturnedTree

\* C21, amended: get_notebook_tree returns whenever the fetch succeeds, and
\* the returned forest holds exactly the listed notebooks whose parent chain
\* ends at a root; those on a parent cycle or below one are left out.
C21_CycleMembersAreLeftOut ==
    Returned("get_notebook_tree")
        => /\ result.ok <=> Len(calls) = 1 /\ gw_calls # <<>> /\ ~Raised("ConnectionError")
           /\ result.ok => {node.id : node \in NodesOf(result.value)} = C21_Rooted

\* a and b are each other's parent, c lies below a, d is a root: only d is
\* returned.
C21_Witness ==
    /\ ReturnedTree
    /\ notebooks = << NotebookData("a", "N-a", Some("b")), NotebookData("b", "N-b", Some("a")),
                      NotebookData("c", "N-c", Some("a")), NotebookData("d", "N-d", None) >>
    /\ C21_Cyclic = {"a", "b", "c"}
    /\ result.value = << [id |-> "d", title |-> "N-d", children |-> <<>>] >>

\* The ids of a forest, every node counted, parents before their children.
RECURSIVE C29_FlatIds(_)
C29_FlatIds(forest) ==
    IF forest = <<>> THEN <<>>
    ELSE <<forest[1].id>> \o C29_FlatIds(forest[1].children) \o C29_FlatIds(Tail(forest))

\* C29: for a listing of pairwise distinct ids without a parent cycle,
\* get_notebook_tree returns (given the fetch succeeds) and every listed id
\* occurs exactly once in the returned forest.
C29_AcyclicListingIsPartitioned ==
    (Returned("get_notebook_tree") /\ C21_Cyclic = {})
        => /\ result.ok <=> ~Raised("ConnectionError")
           /\ result.ok =>
                LET flat == C29_FlatIds(result.value)
                IN /\ Len(flat) = Len(notebooks)
                   /\ \A i \in DOMAIN notebooks :
                        Cardinality({k \in DOMAIN flat : flat[k] = Val(notebooks[i].id)}) = 1

\* Four notebooks on three levels, listed children first.
C29_Witness ==
    /\ ReturnedTree
    /\ notebooks = << NotebookData("a", "N-a", Some("b")), NotebookData("b", "N-b", Some("d")),
                      NotebookData("c", "N-c", Some("d")), NotebookData("d", "N-d", None) >>
    /\ C21_Cyclic = {}
    /\ C29_FlatIds(result.value) = <<"d", "b", "a", "c">>

-----------------------------------------------------------------------------
(* Claims about the errors of operations of several steps, checked under   *)
(* SpecSteps. *)

C22_CreateTools == {"create_note", "create_notebook", "create_tag"}

\* The fault plan has failed the fetch inside the Gateway's create: the
\* second backend call of the invocation.
C22_RefetchFailed ==
    /\ pc = "returned" /\ last.tool \in C22_CreateTools
    /\ last.args.plan.at = 2 /\ Len(calls) = 2

\* The taxonomy error the Gateway's fetch raises for the plan's fault.
C22_RefetchError == handle_error(St, last.args.plan.fault, "")

\* C22: when the fetch inside the Gateway's create_note or create_notebook
\* fails with a taxonomy error of kind K, the error raised by the create
\* operation has kind K.
C22_RefetchErrorKeepsItsKind ==
    C22_RefetchFailed
        => /\ ~result.ok
           /\ Val(result.error).kind = C22_RefetchError.kind

C23_WritingCalls == {"add_note", "modify_note", "add_notebook", "modify_notebook", "add_tag"}

\* The invocation has failed at a backend call after its first call, a
\* create or an update, took effect.
C23_FailedAfterEffect ==
    /\ pc = "returned" /\ ~result.ok
    /\ Len(calls) >= 2 /\ calls[1].op \in C23_WritingCalls

\* The fault of the failing call: the plan's, or the backend's own 404 for
\* an id it does not hold.
C23_Fault ==
    IF last.args.plan.at = Len(calls) THEN last.args.plan.fault ELSE NotFoundFault

\* The failing call is the fetch inside the Gateway's create.
C23_InsideCreate == last.tool \in C22_CreateTools /\ Len(calls) = 2

-----------------------------------------------------------------------------
(* Claim about the backend session of a single-threaded process, checked   *)
(* under SpecFaults: invocations one after the other, failing ones among   *)
(* them. *)

C24_Session == IF g_client = None THEN None ELSE Val(g_client).session

\* The session the configuration asks for.
C24_ConfiguredSession ==
    [token |-> Val(g_config).api_token,
     url |-> "http://" \o Val(g_config).host \o ":" \o IntStr(Val(g_config).port)]

\* C24: in a single-threaded process the backend session is constructed at
\* most once: there is none before the first Gateway operation, the first
\* operation makes it of the configured host, port and token, and every
\* later operation, failing or not, leaves that session in place.
C24_SessionBuiltOnceAndKept ==
    /\ [](/\ threads.sessions <= 1
          /\ threads.sessions = 1 <=> C24_Session # None
          /\ gw_calls # <<>> => C24_Session # None
          /\ C24_Session # None => C24_Session = Some(C24_ConfiguredSession))
    /\ [][/\ C24_Session # None => g_client' = g_client
          /\ (C24_Session = None /\ g_client' # None /\ Val(g_client').session # None)
                => gw_calls' # <<>>]_vars

\* A Gateway operation has failed in a process that already had its
\* session, and the session is still the one constructed first.
C24_Witness ==
    /\ FaultStruck /\ ~result.ok
    /\ last.tool = "get_notebook"
    /\ threads.sessions = 1
    /\ C24_Session = Some([token |-> "secret", url |-> "http://localhost:41184"])

-----------------------------------------------------------------------------
\* The backend create call and the fetch call of each create tool, and the
\* records the backend holds for it.
C25_CreateCall ==
    CASE last.tool = "create_note" -> "add_note"
      [] last.tool = "create_notebook" -> "add_notebook"
      [] last.tool = "create_tag" -> "add_tag"
C25_FetchCall ==
    CASE last.tool = "create_note" -> "get_note"
      [] last.tool = "create_notebook" -> "get_notebook"
      [] last.tool = "create_tag" -> "get_tag"
C25_Store ==
    CASE last.tool = "create_note" -> notes
      [] last.tool = "create_notebook" -> notebooks
      [] last.tool = "create_tag" -> tag_store

\* The record the create call made: the backend appends it, and answers
\* the create call with its identifier.
C25_Created == C25_Store[Len(C25_Store)]

\* What create_notebook and create_tag return for the record fetched.
C25_Returned ==
    IF last.tool = "create_notebook" THEN notebook_from_dict(dataclass_to_dict(C25_Created))
    ELSE tag_from_dict(dataclass_to_dict(C25_Created))

\* C25: the Gateway's create_note, create_notebook and create_tag issue the
\* backend create call first; when it fails that is the only call and the
\* error is raised; otherwise the second call is the one fetch of the
\* Gateway's create, addressed to the identifier of the record the create
\* call made, and the fetched record is what the Gateway returns: the
\* create_notebook and create_tag tools issue no further call and return
\* that record, and what create_note issues next is another Gateway
\* operation of the tool, addressed to the same identifier.
C25_CreateThenOneFetchById ==
    (pc = "returned" /\ last.tool \in C22_CreateTools)
        => /\ Len(calls) >= 1 /\ Len(gw_calls) = Len(calls)
           /\ calls[1].op = C25_CreateCall
           /\ IF last.args.plan.at = 1
              THEN Len(calls) = 1 /\ ~result.ok
              ELSE /\ Len(calls) >= 2
                   /\ calls[2].op = C25_FetchCall
                   /\ Some(calls[2].id) = C25_Created.id
                   /\ \A k \in 3..Len(calls) :
                        /\ gw_calls[k].op \in {"add_tag_to_note", "get_note", "get_note_tags"}
                        /\ calls[k].op # "add_note"
                        /\ Some(IF calls[k].op = "get_tags" \/ calls[k].op = "add_tag_to_note"
                                THEN calls[k].note_id ELSE calls[k].id) = C25_Created.id
                   /\ last.tool # "create_note"
                        => /\ Len(calls) = 2
                           /\ result.ok <=> last.args.plan.at # 2
                           /\ result.ok => result.value = C25_Returned

\* create_tag made tag t3 and returned the record fetched under that id.
C25_Witness ==
    /\ pc = "returned" /\ last.tool = "create_tag" /\ result.ok
    /\ last.args.title = "new"
    /\ calls = <<[op |-> "add_tag", title |-> "new"], [op |-> "get_tag", id |-> "t3"]>>
    /\ result.value = [id |-> "t3", title |-> "new"]

-----------------------------------------------------------------------------
C26_NoteArgs == {"title", "body", "notebook_id", "is_todo", "todo_completed"}
C26_NotebookArgs == {"title", "parent_id"}

\* The Note the tool reads from a stored record after an update with
\* arguments a: a field that was provided shows the argument, and any
\* other field what the record held before.
C26_NoteAfter(a, old) ==
    [id |-> Val(old.id),
     title |-> IF a.title # None THEN Val(a.title) ELSE Val(old.title),
     body |-> IF a.body # None THEN Val(a.body)
              ELSE IF old.body # None THEN Val(old.body) ELSE "",
     notebook_id |-> IF a.notebook_id # None THEN Val(a.notebook_id) ELSE Val(old.parent_id),
     is_todo |-> IF a.is_todo # None THEN Val(a.is_todo)
                 ELSE old.is_todo # None /\ Val(old.is_todo) # 0,
     todo_completed |-> IF a.todo_completed # None THEN Val(a.todo_completed)
                        ELSE old.todo_completed # None /\ Val(old.todo_completed) # 0]

\* The same for a Notebook, which shows an empty parent_id as none.
C26_NotebookAfter(a, old) ==
    LET parent == IF a.parent_id # None THEN a.parent_id ELSE old.parent_id
    IN [id |-> Val(old.id),
        title |-> IF a.title # None THEN Val(a.title) ELSE Val(old.title),
        parent_id |-> IF parent # None /\ Val(parent) # "" THEN parent ELSE None]

\* C26: update_note and update_notebook, given at least one field, issue
\* the backend update call first. When it fails (a fault, or an id the
\* backend does not hold) it is the only call, the stored data is unchanged
\* and the error is the result. Otherwise the refetch follows, no update
\* call comes after it, and a record returned shows every provided field
\* with its new value and every other field with the value held before.
C26_UpdatePrecedesRefetch ==
    [][(pc' = "returned" /\ last'.tool \in {"update_note", "update_notebook"})
        => LET a == last'.args
               note == last'.tool = "update_note"
               id == IF note THEN a.note_id ELSE a.notebook_id
               store == IF note THEN notes ELSE notebooks
               given == IF note THEN {f \in C26_NoteArgs : a[f] # None}
                        ELSE {f \in C26_NotebookArgs : a[f] # None}
               update == IF note THEN "modify_note" ELSE "modify_notebook"
               fetch == IF note THEN "get_note" ELSE "get_notebook"
           IN given # {}
                => /\ Len(calls') >= 1
                   /\ calls'[1].op = update /\ calls'[1].id = id
                   /\ IF a.plan.at = 1 \/ ~HasId(store, id)
                      THEN /\ Len(calls') = 1
                           /\ ~result'.ok
                           /\ backend' = backend
                      ELSE /\ Len(calls') >= 2
                           /\ calls'[2].op = fetch /\ calls'[2].id = id
                           /\ \A k \in 2..Len(calls') : calls'[k].op # update
                           /\ result'.ok <=> a.plan.at = 0 \/ a.plan.at > Len(calls')
                           /\ result'.ok
                                => LET old == store[IndexOf(store, id)]
                                   IN IF note
                                      THEN [f \in DOMAIN C26_NoteAfter(a, old) |-> result'.value[f]]
                                             = C26_NoteAfter(a, old)
                                      ELSE result'.value = C26_NotebookAfter(a, old)]_vars

\* update_note with only is_todo given: the note returned is no todo any
\* more and keeps its title, body and notebook.
C26_Witness ==
    /\ pc = "returned" /\ last.tool = "update_note" /\ result.ok
    /\ last.args.title = None /\ last.args.is_todo = Some(FALSE)
    /\ calls[1].op = "modify_note" /\ calls[2].op = "get_note"
    /\ result.value.title = "T1" /\ result.value.body = "B1"
    /\ result.value.notebook_id = "nb1" /\ ~result.value.is_todo

-----------------------------------------------------------------------------
\* The fault the backend answered the failing call with, and its text in
\* lower case.
C27_Fault == last.args.plan.fault
C27_Text == Lower(C27_Fault.message)

\* The markers of each rule.
C27_IsConnection ==
    C27_Fault.kind = "RequestsConnectionError" \/ Contains(C27_Text, "connection refused")
C27_IsAuth ==
    Contains(C27_Text, "401") \/ Contains(C27_Text, "403") \/ Contains(C27_Text, "unauthorized")
C27_IsNotFound == Contains(C27_Text, "404") \/ Contains(C27_Text, "not found")

-----------------------------------------------------------------------------
\* The errors a Gateway operation raises.
C28_GatewayKinds == {"ConnectionError", "AuthError", "NotFoundError", "JoplinAPIError"}

\* The text of the fault the Gateway translated: the plan's, or the
\* backend's own 404 for an id it does not hold.
C28_FaultText ==
    IF FaultStruck THEN last.args.plan.fault.message ELSE NotFoundFault.message

\* C28: an invocation that entered the Gateway either returns or raises one
\* of ConnectionError, AuthError, NotFoundError and JoplinAPIError, with its
\* category tag, and the text of the fault underneath kept in its detail:
\* whatever the HTTP client or the record conversion raised; and a fault
\* inside a Gateway operation always ends the invocation with an error.
C28_GatewayRaisesOnlyTaxonomyErrors ==
    /\ FaultStruck => ~result.ok
    /\ (pc = "returned" /\ gw_calls # <<>> /\ ~result.ok)
          => /\ Val(result.error).kind \in C28_GatewayKinds
             /\ Val(result.error).category = C13_CategoryTag(Val(result.error).kind)
             /\ Val(result.error).detail # None
             /\ Contains(Val(Val(result.error).detail), C28_FaultText)
             /\ reply.returned

\* The record conversion raised a TypeError inside update_note's refetch,
\* and the tool ended with the generic JoplinAPIError.
C28_Witness ==
    /\ FaultStruck /\ last.tool = "update_note"
    /\ last.args.plan.fault.kind = "TypeError" /\ last.args.plan.at = 2
    /\ Raised("JoplinAPIError")
    /\ Val(result.error).message = "Joplin API error: note n1"
    /\ Val(result.error).detail = Some("Expected dataclass or dict, got <class 'NoneType'>")

-----------------------------------------------------------------------------
C30_ReadTools ==
    {"search_notes", "get_note", "list_notebooks", "get_notebook", "get_notebook_tree",
     "list_tags", "get_tag", "get_note_resources"}

\* The backend calls that create, update, attach or detach.
C30_WritingCalls ==
    {"add_note", "modify_note", "add_notebook", "modify_notebook", "add_tag",
     "add_tag_to_note", "remove_tag_from_note"}

\* C30: an invocation of a read-only tool, returning or failing, issues no
\* create, update, tag-attach or tag-detach call and leaves the backend's
\* notes, notebooks, tags and note-tag relation as they were.
C30_ReadsLeaveBackendUnchanged ==
    [][(pc' = "returned" /\ last'.tool \in C30_ReadTools)
        => /\ notes' = notes
           /\ notebooks' = notebooks
           /\ tag_store' = tag_store
           /\ note_tags' = note_tags
           /\ \A k \in 1..Len(calls') : calls'[k].op \notin C30_WritingCalls]_vars

\* get_tag has failed on an unknown id after a tag was created: the backend
\* still holds the three tags, the created one last.
C30_Witness ==
    /\ pc = "returned" /\ last.tool = "get_tag" /\ last.args.tag_id = "zz"
    /\ Raised("NotFoundError")
    /\ writes = 1
    /\ Len(tag_store) = 3 /\ tag_store[3].id = Some("t3")
    /\ Len(notes) = 1 /\ Len(notebooks) = 2 /\ note_tags = << <<"t1">> >>

====
